---- MODULE Spec2Model ----
(***************************************************************************)
(* A model of the VOC dashboard (src/app.py): the record classifier, the   *)
(* record loader over the spreadsheet's worksheets, the cached reads and   *)
(* the approval workflow, the access gate of main, and the daily trend.    *)
(*                                                                         *)
(* Text is modelled as a sequence of one-character strings, so that        *)
(* lowercasing, the regular-expression strip and the substring tests of    *)
(* the code are computed, not assumed.                                     *)
(***************************************************************************)
EXTENDS Integers, Sequences, FiniteSets, TLC

VARIABLES
    fn,         \* function-call harness: the function under call
    arg,        \* function-call harness: its argument
    ret,        \* function-call harness: what the call returned, or NoRet
    sheets,     \* the spreadsheet's worksheets, in order: title, rows, readable
    loaded,     \* what load_voc_data returned last (a record: raised, table, raw)
    users,      \* the rows of the user_management worksheet
    vocCache,   \* st.cache_data entry of load_voc_data: present, val, age, stamp
    usersCache, \* st.cache_data entry of fetch_users_table: present, val, age, stamp
    writes,     \* how many approval-workflow writes the worksheet has taken
    session,    \* the last run of main: email, pc, users_df, voc_df, what it read
    trendIn,    \* create_trend_chart's input: the dates of the records, start, end
    trendOut,   \* create_trend_chart's merged series, or NoRet
    session_state  \* st.session_state: the value of every checkbox key

vars == <<fn, arg, ret, sheets, loaded, users, vocCache, usersCache, writes,
          session, trendIn, trendOut, session_state>>

classifyVars == <<fn, arg, ret>>
loaderVars   == <<sheets, loaded>>
appVars      == <<users, vocCache, usersCache, writes, session>>
trendVars    == <<trendIn, trendOut>>
uiVars       == <<session_state>>

NoRet == "NoRet"
RAISE == "RAISE"
\* st.session_state before the first run of main
NoState == [k \in {} |-> TRUE]

(***************************************************************************)
(* Characters and Python's str operations                                  *)
(***************************************************************************)
UpperSeq == <<"A", "B", "C", "D", "E", "F", "G", "H", "I", "J", "K", "L", "M",
              "N", "O", "P", "Q", "R", "S", "T", "U", "V", "W", "X", "Y", "Z">>
LowerSeq == <<"a", "b", "c", "d", "e", "f", "g", "h", "i", "j", "k", "l", "m",
              "n", "o", "p", "q", "r", "s", "t", "u", "v", "w", "x", "y", "z">>
DigitChars == {"0", "1", "2", "3", "4", "5", "6", "7", "8", "9"}
\* The Hangul syllables that occur in the model's texts, each written as one
\* character named by its romanization ("ko_syo" is the first syllable of the
\* showdown keyword of line 235): all of them lie in the ranges the regular
\* expression keeps.
HangulChars == {"ko_syo", "ko_da", "ko_un", "ko_hol", "ko_deom", "ko_nyu", "ko_be",
                "ko_ga", "ko_seu", "ko_ka", "ko_ji", "ko_no", "ko_gun", "ko_maj",
                "ko_go", "ko_seos", "ko_po", "ko_keo", "ko_mo", "ko_ba", "ko_il",
                "ko_a", "ko_an", "ko_beo", "ko_beon", "ko_bul", "ko_do", "ko_doe",
                "ko_dwae", "ko_eoss", "ko_gam", "ko_gang", "ko_geu", "ko_gi",
                "ko_gyeol", "ko_hab", "ko_hae", "ko_ho", "ko_hoe", "ko_hwan", "ko_i",
                "ko_jak", "ko_je", "ko_jeung", "ko_jja", "ko_jo", "ko_joh", "ko_mab",
                "ko_man", "ko_mol", "ko_mun", "ko_ni", "ko_o", "ko_pae", "ko_re",
                "ko_rek", "ko_rim", "ko_ring", "ko_ryu", "ko_sa", "ko_seub",
                "ko_sseu", "ko_toe", "ko_um", "ko_won", "ko_yo"}

\* str.lower() on one character
LowerChar(c) ==
    IF \E i \in 1..Len(UpperSeq) : UpperSeq[i] = c
    THEN LowerSeq[CHOOSE i \in 1..Len(UpperSeq) : UpperSeq[i] = c]
    ELSE c

\* str.lower()
Lower(s) == [i \in 1..Len(s) |-> LowerChar(s[i])]

\* the character class [a-z0-9] plus the Hangul jamo and syllable ranges
IsKeptChar(c) ==
    \/ \E i \in 1..Len(LowerSeq) : LowerSeq[i] = c
    \/ c \in DigitChars
    \/ c \in HangulChars

\* re.sub(r'[^a-z0-9 Hangul]', '', s.lower())
Normalize(s) == SelectSeq(Lower(s), IsKeptChar)

\* k in s
Contains(s, k) ==
    \E i \in 0..(Len(s) - Len(k)) : SubSeq(s, i + 1, i + Len(k)) = k

(***************************************************************************)
(* Python values: None/NaN, a number, a string                             *)
(***************************************************************************)
PyNone   == [kind |-> "null", s |-> <<"N", "o", "n", "e">>]
PyNum(d) == [kind |-> "num", s |-> d]
PyStr(s) == [kind |-> "str", s |-> s]

\* pd.isna(v)
isna(v) == v.kind = "null"
\* isinstance(v, str)
isstr(v) == v.kind = "str"
\* str(v)
str(v) == v.s

(***************************************************************************)
(* classify_game, classify_platform                                        *)
(***************************************************************************)
KwShowdownKo == <<"ko_syo", "ko_da", "ko_un", "ko_hol", "ko_deom">>
KwShowdown == <<"s", "h", "o", "w", "d", "o", "w", "n">>
KwNewVegasKo == <<"ko_nyu", "ko_be", "ko_ga", "ko_seu">>
KwNewVegas == <<"n", "e", "w", "v", "e", "g", "a", "s">>
KwCasino == <<"ko_ka", "ko_ji", "ko_no", "ko_gun">>
KwNewMatgoKo == <<"ko_nyu", "ko_maj", "ko_go">>
KwNewMatgo == <<"n", "e", "w", "m", "a", "t", "g", "o">>
KwSutdaKo == <<"ko_seos", "ko_da">>
KwSutda == <<"s", "u", "t", "d", "a">>
KwPokerKo == <<"ko_po", "ko_keo">>
KwPoker == <<"p", "o", "k", "e", "r">>
KwForKakao == <<"f", "o", "r", "k", "a", "k", "a", "o">>
KwFork == <<"f", "o", "r", "k">>
KwMob == <<"m", "o", "b">>
KwMobileKo == <<"ko_mo", "ko_ba", "ko_il">>
KwPc == <<"p", "c">>

GAME_SHOWDOWN == "showdown-holdem"
GAME_NEWVEGAS == "new-vegas"
GAME_NEWMATGO == "new-matgo"
GAME_SUTDA    == "sutda"
GAME_POKER    == "poker"
\* the label of line 240 and 248, "gita": Other
GITA          == "Other"
PLAT_KAKAO    == "for kakao"
PLAT_MOB      == "MOB"
PLAT_PC       == "PC"

Games     == {GAME_SHOWDOWN, GAME_NEWVEGAS, GAME_NEWMATGO, GAME_SUTDA, GAME_POKER, GITA}
Platforms == {PLAT_KAKAO, PLAT_MOB, PLAT_PC, GITA}

\* the keyword tests of classify_game, on the normalized text
HasShowdown(p) == Contains(p, KwShowdownKo) \/ Contains(p, KwShowdown)
HasNewVegas(p) == Contains(p, KwNewVegasKo) \/ Contains(p, KwNewVegas) \/ Contains(p, KwCasino)
HasNewMatgo(p) == Contains(p, KwNewMatgoKo) \/ Contains(p, KwNewMatgo)
HasSutda(p)    == Contains(p, KwSutdaKo) \/ Contains(p, KwSutda)
HasPoker(p)    == Contains(p, KwPokerKo) \/ Contains(p, KwPoker)
\* the keyword tests of classify_platform
HasKakao(p)    == Contains(p, KwForKakao) \/ Contains(p, KwFork)
HasMob(p)      == Contains(p, KwMob) \/ Contains(p, KwMobileKo)
HasPc(p)       == Contains(p, KwPc)

\* a plausible slip: the generic poker test placed before the specific games
classify_game_PokerFirst(category) ==
    IF isna(category) THEN GITA
    ELSE LET processed == Normalize(str(category)) IN
         IF HasPoker(processed) THEN GAME_POKER
         ELSE IF HasShowdown(processed) THEN GAME_SHOWDOWN
         ELSE IF HasNewVegas(processed) THEN GAME_NEWVEGAS
         ELSE IF HasNewMatgo(processed) THEN GAME_NEWMATGO
         ELSE IF HasSutda(processed) THEN GAME_SUTDA
         ELSE GITA

\* a plausible slip: category.lower() without str(): a number has no lower()
classify_game_NoStr(category) ==
    IF isna(category) THEN GITA
    ELSE IF ~isstr(category) THEN RAISE
    ELSE LET processed == Normalize(str(category)) IN
         IF HasShowdown(processed) THEN GAME_SHOWDOWN
         ELSE IF HasNewVegas(processed) THEN GAME_NEWVEGAS
         ELSE IF HasNewMatgo(processed) THEN GAME_NEWMATGO
         ELSE IF HasSutda(processed) THEN GAME_SUTDA
         ELSE IF HasPoker(processed) THEN GAME_POKER
         ELSE GITA

classify_game(category) ==
    IF isna(category) THEN GITA
    ELSE LET processed == Normalize(str(category)) IN
         IF HasShowdown(processed) THEN GAME_SHOWDOWN
         ELSE IF HasNewVegas(processed) THEN GAME_NEWVEGAS
         ELSE IF HasNewMatgo(processed) THEN GAME_NEWMATGO
         ELSE IF HasSutda(processed) THEN GAME_SUTDA
         ELSE IF HasPoker(processed) THEN GAME_POKER
         ELSE GITA

\* a plausible slip: the mobile test placed before the portal test
classify_platform_MobFirst(category) ==
    IF isna(category) THEN GITA
    ELSE LET processed == Normalize(str(category)) IN
         IF HasMob(processed) THEN PLAT_MOB
         ELSE IF HasKakao(processed) THEN PLAT_KAKAO
         ELSE IF HasPc(processed) THEN PLAT_PC
         ELSE GITA

classify_platform(category) ==
    IF isna(category) THEN GITA
    ELSE LET processed == Normalize(str(category)) IN
         IF HasKakao(processed) THEN PLAT_KAKAO
         ELSE IF HasMob(processed) THEN PLAT_MOB
         ELSE IF HasPc(processed) THEN PLAT_PC
         ELSE GITA

(***************************************************************************)
(* truncate_inquiry_content, classify_sentiment                            *)
(***************************************************************************)
SENT_NEG == "Negative"
SENT_POS == "Positive"
SENT_NEU == "Neutral"
Sentiments == {SENT_NEG, SENT_POS, SENT_NEU}

neg == <<<<"ko_jja", "ko_jeung">>,
         <<"ko_o", "ko_ryu">>,
         <<"ko_hwan", "ko_bul">>,
         <<"ko_an", "ko_dwae", "ko_yo">>,
         <<"ko_sseu", "ko_re", "ko_gi">>,
         <<"ko_jo", "ko_jak">>,
         <<"ko_bul", "ko_man">>,
         <<"ko_mun", "ko_je">>,
         <<"ko_pae", "ko_mol", "ko_rim">>,
         <<"ko_o", "ko_ring">>,
         <<"ko_gang", "ko_toe">>,
         <<"ko_beo", "ko_geu">>,
         <<"ko_rek">>>>
pos == <<<<"ko_gam", "ko_sa", "ko_hab", "ko_ni", "ko_da">>,
         <<"ko_joh", "ko_a", "ko_yo">>,
         <<"ko_do", "ko_um", "ko_i", " ", "ko_doe", "ko_eoss", "ko_seub", "ko_ni", "ko_da">>,
         <<"ko_hae", "ko_gyeol">>,
         <<"ko_go", "ko_mab", "ko_seub", "ko_ni", "ko_da">>>>

\* any(k in t for k in [w.lower() for w in words])
AnyIn(words, t) == \E i \in 1..Len(words) : Contains(t, Lower(words[i]))

\* a plausible slip: text.lower() called before the isinstance test
classify_sentiment_NoGuard(text) ==
    IF ~isstr(text) THEN RAISE
    ELSE LET t == Lower(text.s) IN
         IF AnyIn(neg, t) THEN SENT_NEG
         ELSE IF AnyIn(pos, t) THEN SENT_POS
         ELSE SENT_NEU

classify_sentiment(text) ==
    IF ~isstr(text) THEN SENT_NEU
    ELSE LET t == Lower(text.s) IN
         IF AnyIn(neg, t) THEN SENT_NEG
         ELSE IF AnyIn(pos, t) THEN SENT_POS
         ELSE SENT_NEU

\* the member-number label the body is split on (line 273)
MEMBER_NO_MARK == <<"ko_hoe", "ko_won", "ko_beon", "ko_ho", " ", ":">>
TRUNC_LEN == 300
Whitespace == {" ", "\n", "\t"}

\* s.split(mark)[0]: the text before the first occurrence of mark
SplitFirst(s, mark) ==
    IF Contains(s, mark)
    THEN LET i == CHOOSE j \in 0..(Len(s) - Len(mark)) :
                    /\ SubSeq(s, j + 1, j + Len(mark)) = mark
                    /\ \A k \in 0..(j - 1) : SubSeq(s, k + 1, k + Len(mark)) # mark
         IN SubSeq(s, 1, i)
    ELSE s

\* s.strip()
Strip(s) ==
    LET keep == {i \in 1..Len(s) : s[i] \notin Whitespace} IN
    IF keep = {} THEN <<>>
    ELSE LET lo == CHOOSE i \in keep : \A j \in keep : i <= j
             hi == CHOOSE i \in keep : \A j \in keep : j <= i
         IN SubSeq(s, lo, hi)

truncate_inquiry_content(text) ==
    IF isstr(text)
    THEN LET cleaned == Strip(SplitFirst(text.s, MEMBER_NO_MARK)) IN
         IF Len(cleaned) > TRUNC_LEN
         THEN SubSeq(cleaned, 1, TRUNC_LEN) \o <<".", ".", ".">>
         ELSE cleaned
    ELSE <<>>

(***************************************************************************)
(* The classifier under call: one call of one function on one argument     *)
(***************************************************************************)
MaxChunks == 3

\* the pieces category strings are built from: keywords of every game and
\* platform, upper case, separators, and pieces that form a keyword only
\* when joined or stripped ("for" + "K", "P-C")
CategoryChunks ==
    { <<"s", "h", "o", "w", "d", "o", "w", "n">>,
      <<"ko_nyu", "ko_be", "ko_ga", "ko_seu">>,
      <<"ko_ka", "ko_ji", "ko_no", "ko_gun">>,
      <<"N", "E", "W", "_", "M", "A", "T", "G", "O">>,
      <<"ko_seos", "ko_da">>,
      <<"p", "o", "k", "e", "r">>,
      <<"ko_po", "ko_keo">>,
      <<"_", "f", "o", "r", "_", "k", "a", "k", "a", "o">>,
      <<"f", "o", "r">>,
      <<"K">>,
      <<"m", "o", "b">>,
      <<"ko_mo", "ko_ba", "ko_il">>,
      <<"P", "-", "C">>,
      <<" ">> }

\* the pieces body texts are built from
BodyChunks ==
    { <<"ko_jja", "ko_jeung">>,
      <<"ko_gam", "ko_sa", "ko_hab", "ko_ni", "ko_da">>,
      <<"ko_hoe", "ko_won", "ko_beon", "ko_ho", " ", ":">>,
      <<" ">>,
      <<"7", "7">>,
      <<"O", "K">> }

RECURSIVE TextsOf(_, _)
TextsOf(chunks, n) ==
    IF n = 0 THEN {<<>>}
    ELSE LET shorter == TextsOf(chunks, n - 1) IN
         shorter \cup {t \o c : t \in shorter, c \in chunks}

PyNaN == [kind |-> "null", s |-> <<"n", "a", "n">>]
NonStrings == {PyNone, PyNaN, PyNum(<<"1", "2", "3">>), PyNum(<<"1", ".", "5">>)}

CategoryArgs == NonStrings \cup {PyStr(t) : t \in TextsOf(CategoryChunks, MaxChunks)}
BodyArgs     == NonStrings \cup {PyStr(t) : t \in TextsOf(BodyChunks, MaxChunks)}

ClassifierFns == {"classify_game", "classify_platform", "classify_sentiment",
                  "truncate_inquiry_content"}

ArgsOf(f) == IF f \in {"classify_game", "classify_platform"} THEN CategoryArgs ELSE BodyArgs

InitClassify ==
    /\ fn \in ClassifierFns
    /\ arg \in ArgsOf(fn)
    /\ ret = NoRet
    /\ sheets = <<>> /\ loaded = [failure |-> "pending"]
    /\ users = <<>> /\ vocCache = NoRet /\ usersCache = NoRet
    /\ writes = 0 /\ session = NoRet
    /\ trendIn = NoRet /\ trendOut = NoRet
    /\ session_state = NoState

Call_classify_game ==
    /\ fn = "classify_game" /\ ret = NoRet
    /\ ret' = classify_game(arg)
    /\ UNCHANGED <<fn, arg, loaderVars, appVars, trendVars, uiVars>>

Call_classify_platform ==
    /\ fn = "classify_platform" /\ ret = NoRet
    /\ ret' = classify_platform(arg)
    /\ UNCHANGED <<fn, arg, loaderVars, appVars, trendVars, uiVars>>

Call_classify_sentiment ==
    /\ fn = "classify_sentiment" /\ ret = NoRet
    /\ ret' = classify_sentiment(arg)
    /\ UNCHANGED <<fn, arg, loaderVars, appVars, trendVars, uiVars>>

Call_truncate_inquiry_content ==
    /\ fn = "truncate_inquiry_content" /\ ret = NoRet
    /\ ret' = truncate_inquiry_content(arg)
    /\ UNCHANGED <<fn, arg, loaderVars, appVars, trendVars, uiVars>>

ClassifyNext ==
    \/ Call_classify_game
    \/ Call_classify_platform
    \/ Call_classify_sentiment
    \/ Call_truncate_inquiry_content

SpecClassify == InitClassify /\ [][ClassifyNext]_vars

(***************************************************************************)
(* Claims on the classifier                                                *)
(***************************************************************************)
Called(f) == fn = f /\ ret # NoRet

\* the games in the fixed order of the claim, and whether each one's keyword
\* set occurs in the normalized text p
GameOrder == <<GAME_SHOWDOWN, GAME_NEWVEGAS, GAME_NEWMATGO, GAME_SUTDA, GAME_POKER>>
GameHit(p, i) ==
    CASE i = 1 -> HasShowdown(p)
      [] i = 2 -> HasNewVegas(p)
      [] i = 3 -> HasNewMatgo(p)
      [] i = 4 -> HasSutda(p)
      [] i = 5 -> HasPoker(p)
GameHits(p) == {i \in 1..5 : GameHit(p, i)}

\* C1: classify_game returns, for every string, the first game in the order
\* showdown-holdem, new-vegas, new-matgo, sutda, poker whose keyword occurs
\* in the normalized string, whichever other games' keywords it also
\* contains, and Other when it contains none.
C1_FirstMatchWins ==
    (Called("classify_game") /\ isstr(arg)) =>
        LET hits == GameHits(Normalize(arg.s)) IN
        IF hits = {} THEN ret = GITA
        ELSE /\ \A i \in hits : \A j \in hits :
                    (i < j) => ret # GameOrder[j]
             /\ \E i \in hits : ret = GameOrder[i] /\ \A j \in hits : i <= j

\* a string with the keywords of three games, the last in the order first
C1_Witness ==
    /\ Called("classify_game") /\ isstr(arg)
    /\ GameHits(Normalize(arg.s)) = {1, 3, 5}
    /\ HasPoker(Normalize(SubSeq(arg.s, 1, 5)))
    /\ ret = GAME_SHOWDOWN

NewMatgoForKakao ==
    PyStr(<<"N", "E", "W", "_", "M", "A", "T", "G", "O",
            "_", "f", "o", "r", "_", "k", "a", "k", "a", "o">>)

\* C2: classify_platform returns 'for kakao' whenever the normalized string
\* contains the portal keyword, whatever else it contains; MOB when it
\* contains a mobile keyword and no portal keyword, a PC keyword or not;
\* Other when it contains none; and 'NEW_MATGO_for_kakao' is new-matgo on
\* 'for kakao'.
C2_PortalMobilePc ==
    /\ (Called("classify_platform") /\ isstr(arg)) =>
          LET p == Normalize(arg.s) IN
          /\ HasKakao(p) => ret = PLAT_KAKAO
          /\ (HasMob(p) /\ ~HasKakao(p)) => ret = PLAT_MOB
          /\ (~HasKakao(p) /\ ~HasMob(p) /\ ~HasPc(p)) => ret = GITA
    /\ (Called("classify_platform") /\ arg = NewMatgoForKakao) => ret = PLAT_KAKAO
    /\ (Called("classify_game") /\ arg = NewMatgoForKakao) => ret = GAME_NEWMATGO

\* the portal keyword together with a mobile and a PC keyword
C2_Witness ==
    /\ Called("classify_platform") /\ isstr(arg)
    /\ LET p == Normalize(arg.s) IN
       HasKakao(p) /\ HasMob(p) /\ HasPc(p)
    /\ ret = PLAT_KAKAO

IsBlank(s) == \A i \in 1..Len(s) : s[i] \in Whitespace

COL_CATEGORY == "category"
COL_TITLE    == "title"
COL_BODY     == "body"
COL_TAG      == "taglist"
COL_DATE     == "date"
must == <<COL_CATEGORY, COL_TITLE, COL_BODY, COL_TAG, COL_DATE>>

T_2510   == <<"2", "5", "-", "1", "0">>
T_2511   == <<"2", "5", "-", "1", "1">>
T_202510 == <<"2", "0", "2", "5", "-", "1", "0">>
T_DAILY  == <<"2", "5", "1", "0", "0", "3">>
T_USERS  == <<"u", "s", "e", "r", "_", "m", "a", "n", "a", "g", "e", "m", "e", "n", "t">>
\* the worksheet titles of the model, in the order the spreadsheet lists them
Titles == <<T_2510, T_2511, T_202510, T_DAILY, T_USERS>>

\* the titles the daily-sheet fallback skips (line 313), lowercased
SkippedTitles ==
    { <<"s", "h", "e", "e", "t", "1">>,
      <<"t", "e", "m", "p", "l", "a", "t", "e">>,
      <<"m", "a", "p", "p", "i", "n", "g">>,
      T_USERS }

IsDigit(c) == c \in DigitChars

\* a plausible slip: the pattern ^\d{2,4}-\d{2}$ of the specification
IsMonthlyTitle_FourDigitYear(title) ==
    \/ /\ Len(title) = 5
       /\ IsDigit(title[1]) /\ IsDigit(title[2]) /\ title[3] = "-"
       /\ IsDigit(title[4]) /\ IsDigit(title[5])
    \/ /\ Len(title) = 7
       /\ \A i \in 1..4 : IsDigit(title[i])
       /\ title[5] = "-" /\ IsDigit(title[6]) /\ IsDigit(title[7])

\* re.match(r'^\d{2}-\d{2}$', title): $ also matches before a final newline
IsMonthlyTitle(title) ==
    /\ Len(title) = 5 \/ (Len(title) = 6 /\ title[6] = "\n")
    /\ IsDigit(title[1]) /\ IsDigit(title[2])
    /\ title[3] = "-"
    /\ IsDigit(title[4]) /\ IsDigit(title[5])

\* the raw rows get_all_records returns: a function from the column names the
\* worksheet has to the cells, and the receipt number that identifies the row
RawRow(no, cat, body, date) ==
    [no |-> no,
     cells |-> [c \in {COL_CATEGORY, COL_TITLE, COL_BODY, COL_TAG, COL_DATE} |->
                  CASE c = COL_CATEGORY -> cat
                    [] c = COL_TITLE -> PyStr(<<"q">>)
                    [] c = COL_BODY -> body
                    [] c = COL_TAG -> PyStr(<<"t">>)
                    [] c = COL_DATE -> date]]

\* the row without the cells of the columns in drop
Without(row, drop) ==
    [row EXCEPT !.cells = [c \in (DOMAIN row.cells) \ drop |-> row.cells[c]]]

D_251001 == <<"2", "5", "1", "0", "0", "1">>
D_251002 == <<"2", "5", "1", "0", "0", "2">>
D_251301 == <<"2", "5", "1", "3", "0", "1">>
D_250230 == <<"2", "5", "0", "2", "3", "0">>
D_ISO    == <<"2", "0", "2", "5", "-", "1", "0", "-", "0", "1">>

CAT_MATGO_MOB == PyStr(<<"N", "E", "W", "_", "M", "A", "T", "G", "O", " ", "m", "o", "b">>)
CAT_POKER_PC  == PyStr(<<"p", "o", "k", "e", "r", "_", "P", "C">>)
BODY_NEG      == PyStr(<<"ko_jja", "ko_jeung">>)
BODY_PLAIN    == PyStr(<<"O", "K">>)

\* what a worksheet can hold
SheetContents == {"empty", "valid", "mixed", "baddates", "notag", "nodate", "unreadable"}

\* the rows of the worksheet titled title holding content k; a date cell of
\* digits arrives as a number (get_all_records converts numeric cells)
RowsOf(title, k) ==
    CASE k = "valid"    -> << RawRow(<<title, 1>>, CAT_MATGO_MOB, BODY_NEG, PyNum(D_251001)) >>
      [] k = "mixed"    -> << RawRow(<<title, 1>>, CAT_POKER_PC, BODY_PLAIN, PyNum(D_251301)),
                              RawRow(<<title, 2>>, CAT_MATGO_MOB, BODY_NEG, PyNum(D_251002)) >>
      [] k = "baddates" -> << RawRow(<<title, 1>>, CAT_POKER_PC, BODY_PLAIN, PyNum(D_250230)),
                              RawRow(<<title, 2>>, CAT_POKER_PC, BODY_PLAIN, PyStr(D_ISO)) >>
      [] k = "notag"    -> << Without(RawRow(<<title, 1>>, CAT_POKER_PC, BODY_PLAIN, PyNum(D_251001)),
                                      {COL_TAG}) >>
      [] k = "nodate"   -> << Without(RawRow(<<title, 1>>, CAT_POKER_PC, BODY_PLAIN, PyNone),
                                      {COL_DATE}) >>
      [] OTHER          -> << >>

\* ws.get_all_records() raises
Unreadable(ws) == ws.content = "unreadable"

MaxSheets == 3

RECURSIVE SheetLists(_, _)
\* the worksheet lists over the titles from index i on, at most n worksheets
SheetLists(i, n) ==
    IF i > Len(Titles) \/ n = 0 THEN {<<>>}
    ELSE SheetLists(i + 1, n)
         \cup {<<[title |-> Titles[i], content |-> k]>> \o rest :
                   k \in SheetContents, rest \in SheetLists(i + 1, n - 1)}

(***************************************************************************)
(* pd.to_datetime(text, format="%y%m%d", errors="coerce")                  *)
(***************************************************************************)
\* the missing timestamp
NaT == [y |-> 0, m |-> 0, d |-> 0, hour |-> 0]
DigitSeq == <<"0", "1", "2", "3", "4", "5", "6", "7", "8", "9">>
DigitVal(c) == (CHOOSE i \in 1..10 : DigitSeq[i] = c) - 1

\* %m: 1[0-2] | 0[1-9] | [1-9]; 0 when the text is no month
MonthOf(s) ==
    IF Len(s) = 2 /\ IsDigit(s[1]) /\ IsDigit(s[2])
         /\ 10 * DigitVal(s[1]) + DigitVal(s[2]) \in 1..12
    THEN 10 * DigitVal(s[1]) + DigitVal(s[2])
    ELSE IF Len(s) = 1 /\ IsDigit(s[1]) /\ DigitVal(s[1]) \in 1..9
    THEN DigitVal(s[1])
    ELSE 0

\* %d: 3[01] | [12]\d | 0[1-9] | [1-9] | " "[1-9]; 0 when the text is no day
DayOf(s) ==
    IF Len(s) = 2 /\ IsDigit(s[1]) /\ IsDigit(s[2])
         /\ 10 * DigitVal(s[1]) + DigitVal(s[2]) \in 1..31
    THEN 10 * DigitVal(s[1]) + DigitVal(s[2])
    ELSE IF Len(s) = 2 /\ s[1] = " " /\ IsDigit(s[2]) /\ DigitVal(s[2]) \in 1..9
    THEN DigitVal(s[2])
    ELSE IF Len(s) = 1 /\ IsDigit(s[1]) /\ DigitVal(s[1]) \in 1..9
    THEN DigitVal(s[1])
    ELSE 0

\* the widths (month, day) the format's pattern tries, in its order
FieldWidths == << <<2, 2>>, <<2, 1>>, <<1, 2>>, <<1, 1>> >>

FormatMatches(s, w) ==
    /\ Len(s) = 2 + w[1] + w[2]
    /\ IsDigit(s[1]) /\ IsDigit(s[2])
    /\ MonthOf(SubSeq(s, 3, 2 + w[1])) # 0
    /\ DayOf(SubSeq(s, 3 + w[1], Len(s))) # 0

IsLeap(y) == (y % 4 = 0 /\ y % 100 # 0) \/ y % 400 = 0
DaysInMonth(y, m) ==
    IF m = 2 THEN (IF IsLeap(y) THEN 29 ELSE 28)
    ELSE IF m \in {4, 6, 9, 11} THEN 30 ELSE 31

\* %y: 69..99 are 1969..1999, 00..68 are 2000..2068
FullYear(yy) == IF yy >= 69 THEN 1900 + yy ELSE 2000 + yy

\* a plausible slip: the day is not checked against the month's length
to_datetime_AnyDay(s) ==
    IF \E i \in 1..Len(FieldWidths) : FormatMatches(s, FieldWidths[i])
    THEN LET i == CHOOSE j \in 1..Len(FieldWidths) :
                    /\ FormatMatches(s, FieldWidths[j])
                    /\ \A k \in 1..(j - 1) : ~FormatMatches(s, FieldWidths[k])
             w == FieldWidths[i]
         IN [y |-> FullYear(10 * DigitVal(s[1]) + DigitVal(s[2])),
             m |-> MonthOf(SubSeq(s, 3, 2 + w[1])),
             d |-> DayOf(SubSeq(s, 3 + w[1], Len(s))), hour |-> 0]
    ELSE NaT

\* the timestamp at 00:00 of the day the text names, or NaT
to_datetime(s) ==
    IF \E i \in 1..Len(FieldWidths) : FormatMatches(s, FieldWidths[i])
    THEN LET i == CHOOSE j \in 1..Len(FieldWidths) :
                    /\ FormatMatches(s, FieldWidths[j])
                    /\ \A k \in 1..(j - 1) : ~FormatMatches(s, FieldWidths[k])
             w == FieldWidths[i]
             y == FullYear(10 * DigitVal(s[1]) + DigitVal(s[2]))
             m == MonthOf(SubSeq(s, 3, 2 + w[1]))
             d == DayOf(SubSeq(s, 3 + w[1], Len(s)))
         IN IF d <= DaysInMonth(y, m) THEN [y |-> y, m |-> m, d |-> d, hour |-> 0]
            ELSE NaT
    ELSE NaT

KST_OFFSET == 9
\* .dt.tz_localize("UTC").dt.tz_convert(KST): 00:00 UTC is 09:00 of the same
\* day in Seoul
to_kst(ts) == [ts EXCEPT !.hour = ts.hour + KST_OFFSET]

\* .dt.date
date_of(ts) == [y |-> ts.y, m |-> ts.m, d |-> ts.d]

(***************************************************************************)
(* load_voc_data                                                           *)
(***************************************************************************)
RECURSIVE Flatten(_)
\* all_data.extend(rows), worksheet after worksheet
Flatten(lists) ==
    IF lists = <<>> THEN <<>> ELSE Head(lists) \o Flatten(Tail(lists))

\* the cell of column c as text after DataFrame(all_data) and astype(str):
\* a row without the column holds NaN there
CellText(row, c) ==
    IF c \in DOMAIN row.cells THEN str(row.cells[c]) ELSE <<"n", "a", "n">>

\* r.setdefault(COL_DATE, ws.title)
SetDefaultDate(row, title) ==
    IF COL_DATE \in DOMAIN row.cells THEN row
    ELSE [row EXCEPT !.cells =
            [c \in (DOMAIN row.cells) \cup {COL_DATE} |->
                IF c = COL_DATE THEN PyStr(title) ELSE row.cells[c]]]

\* the rows one worksheet adds to all_data: none when the read raises
MonthlyRows(ws) ==
    IF Unreadable(ws) THEN <<>> ELSE RowsOf(ws.title, ws.content)

DailyRows(ws) ==
    IF Lower(ws.title) \in SkippedTitles \/ IsMonthlyTitle(ws.title) \/ Unreadable(ws)
    THEN <<>>
    ELSE LET rows == RowsOf(ws.title, ws.content) IN
         [i \in 1..Len(rows) |-> SetDefaultDate(rows[i], ws.title)]

\* lines 296-325: all_data
CollectRows(all_worksheets) ==
    LET IsMonthly(ws) == IsMonthlyTitle(ws.title)
        monthly == SelectSeq(all_worksheets, IsMonthly)
    IN IF monthly # <<>>
       THEN Flatten([i \in 1..Len(monthly) |-> MonthlyRows(monthly[i])])
       ELSE Flatten([i \in 1..Len(all_worksheets) |-> DailyRows(all_worksheets[i])])

\* the columns of DataFrame(all_data): every key of every row
ColumnsOf(all_data) == UNION {DOMAIN all_data[i].cells : i \in 1..Len(all_data)}

\* a plausible slip: any() for all() in the required-column test
MissingColumns_Any(all_data) ==
    ~(\E i \in 1..Len(must) : must[i] \in ColumnsOf(all_data))

\* not all(col in df.columns for col in must)
MissingColumns(all_data) ==
    ~(\A i \in 1..Len(must) : must[i] \in ColumnsOf(all_data))

\* lines 340-361: the columns added to one row
NormalizedRecord(row) ==
    LET category == PyStr(CellText(row, COL_CATEGORY))
        body     == PyStr(CellText(row, COL_BODY))
    IN [no        |-> row.no,
        category  |-> category.s,
        date      |-> CellText(row, COL_DATE),
        date_dt   |-> to_datetime(CellText(row, COL_DATE)),
        game      |-> classify_game(category),
        platform  |-> classify_platform(category),
        body      |-> body.s,
        summary   |-> truncate_inquiry_content(body),
        sentiment |-> classify_sentiment(body)]

\* a plausible slip: the rows with NaT are kept
DropNaT_Keep(records) == records

\* df.dropna(subset=[date_dt])
DropNaT(records) ==
    LET Parsed(r) == r.date_dt # NaT IN SelectSeq(records, Parsed)

\* lines 349-353
WithDates(all_data) ==
    LET kept == DropNaT([i \in 1..Len(all_data) |-> NormalizedRecord(all_data[i])])
    IN [i \in 1..Len(kept) |-> [kept[i] EXCEPT !.date_dt = to_kst(kept[i].date_dt)]]

\* pd.DataFrame(): what every failure path returns. all_data is kept beside
\* the table to state the claims; the code returns the table alone.
EmptyTable(all_data, why) ==
    [raised |-> FALSE, table |-> <<>>, all_data |-> all_data, failure |-> why]

\* a plausible slip: a failed read of one worksheet is not caught per
\* worksheet and ends the load in the outer handler
load_voc_data_FailWhole(all_worksheets, openOk, listOk) ==
    IF ~openOk THEN EmptyTable(<<>>, "open_sheet")
    ELSE IF ~listOk THEN EmptyTable(<<>>, "worksheets")
    ELSE IF \E i \in 1..Len(all_worksheets) : Unreadable(all_worksheets[i])
    THEN EmptyTable(<<>>, "read")
    ELSE LET all_data == CollectRows(all_worksheets) IN
         IF all_data = <<>> THEN EmptyTable(all_data, "empty")
         ELSE IF MissingColumns(all_data) THEN EmptyTable(all_data, "columns")
         ELSE [raised |-> FALSE, table |-> WithDates(all_data),
               all_data |-> all_data, failure |-> "none"]

\* openOk: open_sheet returned a spreadsheet; listOk: ss.worksheets() did not
\* raise
load_voc_data(all_worksheets, openOk, listOk) ==
    IF ~openOk THEN EmptyTable(<<>>, "open_sheet")
    ELSE IF ~listOk THEN EmptyTable(<<>>, "worksheets")
    ELSE LET all_data == CollectRows(all_worksheets) IN
         IF all_data = <<>> THEN EmptyTable(all_data, "empty")
         ELSE IF MissingColumns(all_data) THEN EmptyTable(all_data, "columns")
         ELSE [raised |-> FALSE, table |-> WithDates(all_data),
               all_data |-> all_data, failure |-> "none"]

\* load_voc_data has not been called
NotLoaded == [raised |-> FALSE, table |-> <<>>, all_data |-> <<>>, failure |-> "pending"]

InitLoader ==
    /\ sheets \in SheetLists(1, MaxSheets)
    /\ loaded = NotLoaded
    /\ fn = "none" /\ arg = PyNone /\ ret = NoRet
    /\ users = <<>> /\ vocCache = NoRet /\ usersCache = NoRet
    /\ writes = 0 /\ session = NoRet
    /\ trendIn = NoRet /\ trendOut = NoRet
    /\ session_state = NoState

Call_load_voc_data ==
    /\ loaded = NotLoaded
    /\ \E openOk \in BOOLEAN, listOk \in BOOLEAN :
          loaded' = load_voc_data(sheets, openOk, listOk)
    /\ UNCHANGED <<sheets, classifyVars, appVars, trendVars, uiVars>>

LoaderNext == Call_load_voc_data

SpecLoader == InitLoader /\ [][LoaderNext]_vars

(***************************************************************************)
(* Claims on the loader                                                    *)
(***************************************************************************)
Returned == loaded.failure # "pending"
\* the spreadsheet was opened and its worksheets were listed
Listed == Returned /\ loaded.failure \notin {"open_sheet", "worksheets"}

Nos(rows) == [i \in 1..Len(rows) |-> rows[i].no]
NoSet(rows) == {rows[i].no : i \in 1..Len(rows)}

\* two digits, a hyphen, two digits
IsYYMM(title) ==
    /\ Len(title) = 5
    /\ \A i \in {1, 2, 4, 5} : title[i] \in DigitChars
    /\ title[3] = "-"

\* four digits, a hyphen, two digits
IsYYYYMM(title) ==
    /\ Len(title) = 7
    /\ \A i \in {1, 2, 3, 4, 6, 7} : title[i] \in DigitChars
    /\ title[5] = "-"

HasYYMM == \E i \in 1..Len(sheets) : IsYYMM(sheets[i].title)

\* the worksheets the load reads rows from
Tried(ws) ==
    IF HasYYMM THEN IsYYMM(ws.title)
    ELSE Lower(ws.title) \notin SkippedTitles

ReadFailed == \E i \in 1..Len(sheets) : Tried(sheets[i]) /\ Unreadable(sheets[i])

\* the rows of the worksheets that were tried and could be read, in order
ReadableRows ==
    LET Ok(ws) == Tried(ws) /\ ~Unreadable(ws)
        ok == SelectSeq(sheets, Ok)
    IN Flatten([i \in 1..Len(ok) |-> RowsOf(ok[i].title, ok[i].content)])

\* C4: every record of the returned table has a date of the calendar, and no
\* raw row whose date text does not parse is in the table.
C4_ValidDates ==
    Returned =>
        /\ \A i \in 1..Len(loaded.table) :
              LET ts == loaded.table[i].date_dt IN
              /\ ts # NaT /\ ts # to_kst(NaT)
              /\ ts.m \in 1..12
              /\ ts.d \in 1..DaysInMonth(ts.y, ts.m)
        /\ \A i \in 1..Len(loaded.all_data) :
              LET s == CellText(loaded.all_data[i], COL_DATE) IN
              (s \in {D_251301, D_250230, D_ISO, T_202510, <<"n", "a", "n">>}
                 \/ to_datetime(s) = NaT)
                => loaded.all_data[i].no \notin NoSet(loaded.table)

\* rows with a date that parses and rows with one that does not were merged
C4_Witness ==
    /\ Returned
    /\ Len(loaded.table) >= 1
    /\ Len(loaded.all_data) >= Len(loaded.table) + 3

\* C5: when a required column is absent from the merged raw table, the
\* returned table is empty.
C5_MissingColumnRejects ==
    (Returned /\ loaded.all_data # <<>>
       /\ \E i \in 1..Len(must) :
             \A j \in 1..Len(loaded.all_data) : must[i] \notin DOMAIN loaded.all_data[j].cells)
    => loaded.table = <<>>

\* two worksheets were merged and the tag column is in neither
C5_Witness ==
    /\ Returned
    /\ Len(loaded.all_data) >= 2
    /\ \A j \in 1..Len(loaded.all_data) : COL_TAG \notin DOMAIN loaded.all_data[j].cells
    /\ \E j \in 1..Len(loaded.all_data) : COL_DATE \in DOMAIN loaded.all_data[j].cells
    /\ loaded.table = <<>>

STATUS_PENDING  == "pending"
STATUS_APPROVED == "approved"

\* st.secrets app.admin_email
ADMIN_EMAIL == <<"r">>
\* the e-mail addresses a Google login can carry; never empty past line 607
LoginEmails == {<<"R">>, <<"a">>, <<"A">>, <<"b">>}

USERS_TTL == 60
VOC_TTL   == 600
\* seconds of wall clock per step of time
TICK == 60
MaxUsers  == 3
MaxWrites == 3

UserRow(email, status) == [email |-> email, status |-> status]

\* the data frame of the user_management rows; empty when the spreadsheet
\* cannot be opened or the rows cannot be read
fetch_users_table(rows, openOk, readOk) ==
    IF ~openOk THEN <<>>
    ELSE IF ~readOk THEN <<>>
    ELSE rows

\* the first matching row decides
is_approved_AnyStatus(df_users, email) ==
    /\ df_users # <<>>
    /\ SelectSeq(df_users, LAMBDA u : Lower(u.email) = Lower(email)) # <<>>

is_approved(df_users, email) ==
    IF df_users = <<>> THEN FALSE
    ELSE LET row == SelectSeq(df_users, LAMBDA u : Lower(u.email) = Lower(email))
         IN row # <<>> /\ row[1].status = STATUS_APPROVED

is_admin(email) == Lower(email) = Lower(ADMIN_EMAIL)

\* ws.find: the first row whose cell is exactly the e-mail, 0 for None
find(rows, email) ==
    IF \E i \in 1..Len(rows) : rows[i].email = email
    THEN CHOOSE i \in 1..Len(rows) :
            /\ rows[i].email = email
            /\ \A j \in 1..(i - 1) : rows[j].email # email
    ELSE 0

delete_rows(rows, r) == [i \in 1..(Len(rows) - 1) |-> IF i < r THEN rows[i] ELSE rows[i + 1]]

\* an entry of st.cache_data: the value, its age in seconds, and the number
\* of worksheet writes that had happened when the value was loaded
NoEntry(v) == [present |-> FALSE, val |-> v, age |-> 0, stamp |-> 0]
NoUsersEntry == NoEntry(<<>>)
NoVocEntry   == NoEntry(NotLoaded)
Live(c, ttl) == c.present /\ c.age < ttl
Stored(v, w) == [present |-> TRUE, val |-> v, age |-> 0, stamp |-> w]
\* a call through the decorator: the live entry, or a new one
cache_data(c, ttl, v, w) == IF Live(c, ttl) THEN c ELSE Stored(v, w)
Aged(c, ttl) == IF Live(c, ttl) THEN [c EXCEPT !.age = @ + TICK] ELSE c

NoRun == [email |-> <<>>, pc |-> "none", users_df |-> <<>>, voc_df |-> NotLoaded,
          loader_called |-> FALSE, users_stamp |-> 0, voc_stamp |-> 0, read_at |-> 0]

\* the VOC worksheets before and after the next month's worksheet is added
VocBefore == << [title |-> T_2510, content |-> "valid"] >>
VocAfter  == << [title |-> T_2510, content |-> "valid"],
                [title |-> T_2511, content |-> "mixed"] >>

InitApp ==
    /\ users = <<>>
    /\ usersCache = NoUsersEntry /\ vocCache = NoVocEntry
    /\ writes = 0
    /\ session = NoRun
    /\ sheets = VocBefore /\ loaded = NotLoaded
    /\ fn = "none" /\ arg = PyNone /\ ret = NoRet
    /\ trendIn = NoRet /\ trendOut = NoRet
    /\ session_state = NoState

\* what a call of fetch_users_table can return now, as cache entries
UsersReads ==
    IF Live(usersCache, USERS_TTL) THEN {usersCache}
    ELSE {Stored(fetch_users_table(users, openOk, readOk), writes) :
             openOk \in BOOLEAN, readOk \in BOOLEAN}

\* what a call of load_voc_data can return now, as cache entries
VocReads ==
    IF Live(vocCache, VOC_TTL) THEN {vocCache}
    ELSE {Stored(load_voc_data(sheets, openOk, listOk), writes) :
             openOk \in BOOLEAN, listOk \in BOOLEAN}

\* main past the gate: line 641 onwards
Dashboard(e, uc) ==
    \E vc \in VocReads :
       /\ vocCache' = vc
       /\ session' = [email |-> e, pc |-> "dashboard", users_df |-> uc.val,
                      voc_df |-> vc.val, loader_called |-> TRUE,
                      users_stamp |-> uc.stamp, voc_stamp |-> vc.stamp,
                      read_at |-> writes]

\* main stopped at the gate: the warning and the request button
Denied(e, uc) ==
    session' = [email |-> e, pc |-> "denied", users_df |-> uc.val,
                voc_df |-> NotLoaded, loader_called |-> FALSE,
                users_stamp |-> uc.stamp, voc_stamp |-> 0, read_at |-> writes]

\* a run of main by a logged-in user, the request button not clicked
Main(e) ==
    \E uc \in UsersReads :
        /\ usersCache' = uc
        /\ IF is_admin(e) \/ is_approved(uc.val, e)
           THEN /\ Dashboard(e, uc)
                /\ UNCHANGED <<users, writes>>
           ELSE /\ Denied(e, uc)
                /\ UNCHANGED <<users, writes, vocCache>>

RunMain ==
    /\ \E e \in LoginEmails : Main(e)
    /\ UNCHANGED <<classifyVars, loaderVars, trendVars, uiVars>>

\* submit_access_request, called with the user table uc in the cache
submit_access_request(uc, email, openOk) ==
    LET df == uc.val
    IN IF ~openOk
       THEN /\ usersCache' = uc
            /\ UNCHANGED <<users, writes, vocCache>>
       ELSE IF df # <<>> /\ \E i \in 1..Len(df) : Lower(df[i].email) = Lower(email)
       THEN /\ usersCache' = uc
            /\ UNCHANGED <<users, writes, vocCache>>
       ELSE /\ Len(users) < MaxUsers /\ writes < MaxWrites
            /\ users' = Append(users, UserRow(email, STATUS_PENDING))
            /\ writes' = writes + 1
            /\ usersCache' = NoUsersEntry
            /\ vocCache' = NoVocEntry

\* the run of main that follows a click on the request button: the button
\* is drawn again only when the gate still fails, and then it reads True
RunMainRequest ==
    /\ session.pc = "denied"
    /\ \E uc \in UsersReads, openOk \in BOOLEAN :
        /\ ~(is_admin(session.email) \/ is_approved(uc.val, session.email))
        /\ submit_access_request(uc, session.email, openOk)
        /\ Denied(session.email, uc)
    /\ UNCHANGED <<classifyVars, loaderVars, trendVars, uiVars>>

\* approve_user without the st.cache_data.clear()
Call_approve_user_NoClear ==
    /\ writes < MaxWrites
    /\ \E e \in LoginEmails :
        LET r == find(users, e)
        IN /\ r # 0
           /\ users' = [users EXCEPT ![r].status = STATUS_APPROVED]
    /\ writes' = writes + 1
    /\ UNCHANGED <<usersCache, vocCache, session, classifyVars, loaderVars, trendVars, uiVars>>

\* approve_user on an e-mail the worksheet holds
Call_approve_user ==
    /\ writes < MaxWrites
    /\ \E e \in LoginEmails :
        LET r == find(users, e)
        IN /\ r # 0
           /\ users' = [users EXCEPT ![r].status = STATUS_APPROVED]
    /\ writes' = writes + 1
    /\ usersCache' = NoUsersEntry
    /\ vocCache' = NoVocEntry
    /\ UNCHANGED <<session, classifyVars, loaderVars, trendVars, uiVars>>

\* revoke_user on an e-mail the worksheet holds
Call_revoke_user ==
    /\ writes < MaxWrites
    /\ \E e \in LoginEmails :
        LET r == find(users, e)
        IN /\ r # 0
           /\ users' = delete_rows(users, r)
    /\ writes' = writes + 1
    /\ usersCache' = NoUsersEntry
    /\ vocCache' = NoVocEntry
    /\ UNCHANGED <<session, classifyVars, loaderVars, trendVars, uiVars>>

\* wall clock: the live entries age
Tick ==
    /\ Live(usersCache, USERS_TTL) \/ Live(vocCache, VOC_TTL)
    /\ usersCache' = Aged(usersCache, USERS_TTL)
    /\ vocCache' = Aged(vocCache, VOC_TTL)
    /\ UNCHANGED <<users, writes, session, classifyVars, loaderVars, trendVars, uiVars>>

\* the VOC spreadsheet gains a worksheet; no cache is told
VocSheetAdded ==
    /\ sheets = VocBefore
    /\ sheets' = VocAfter
    /\ UNCHANGED <<loaded, appVars, classifyVars, trendVars, uiVars>>

AppNext ==
    \/ RunMain
    \/ RunMainRequest
    \/ Call_approve_user
    \/ Call_revoke_user
    \/ Tick
    \/ VocSheetAdded

SpecApp == InitApp /\ [][AppNext]_vars

(***************************************************************************)
(* Claims on the caches and the access gate                                *)
(***************************************************************************)
\* no entry of the cache was loaded before the last write, and no run read
\* a value loaded before the last write that preceded the read
NoStaleEntry ==
    /\ usersCache.present => usersCache.stamp = writes /\ usersCache.val \in {users, <<>>}
    /\ vocCache.present => vocCache.stamp = writes
    /\ session.pc # "none" => session.users_stamp = session.read_at
    /\ session.loader_called => session.voc_stamp = session.read_at

\* a step that writes the worksheet leaves both entries empty
WriteInvalidates ==
    writes' # writes => (~usersCache'.present /\ ~vocCache'.present)

\* a run that reaches the loader while its entry is live gets the entry's
\* value and leaves the entry alone, whatever the spreadsheet holds by then
LiveEntryReused ==
    (session' # session /\ session'.loader_called /\ Live(vocCache, VOC_TTL))
        => (session'.voc_df = vocCache.val /\ vocCache' = vocCache)

Permitted(email, df) ==
    \/ Lower(email) = Lower(ADMIN_EMAIL)
    \/ \E i \in 1..Len(df) :
          Lower(df[i].email) = Lower(email) /\ df[i].status = STATUS_APPROVED

\* C9: a run of main calls load_voc_data only when the user is the admin or
\* the user table lists the user as approved; any other logged-in user
\* stops at the gate, with no table loaded.
C9_GateBeforeLoader ==
    /\ session.loader_called => Permitted(session.email, session.users_df)
    /\ (session.loader_called /\ session.read_at = writes)
          => Permitted(session.email, users)
    /\ (session.pc # "none" /\ ~Permitted(session.email, session.users_df))
          => /\ session.pc = "denied"
             /\ ~session.loader_called
             /\ session.voc_df = NotLoaded

\* a pending user is stopped at the gate while the VOC table sits in the cache
C9_Witness ==
    /\ session.pc = "denied"
    /\ \E i \in 1..Len(session.users_df) :
          /\ Lower(session.users_df[i].email) = Lower(session.email)
          /\ session.users_df[i].status = STATUS_PENDING
    /\ Live(vocCache, VOC_TTL)
    /\ ~session.loader_called

(***************************************************************************)
(* Access requests of several sessions: each script run is a thread of the *)
(* one server, the st.cache_data entries are shared, and a run can be      *)
(* overtaken at each call of the spreadsheet service                       *)
(***************************************************************************)
Sessions == {1, 2}
\* the logins of the sessions: none of them the admin's
RequestEmails == {<<"a">>, <<"A">>, <<"b">>}

\* the denied page is on display, the request button not yet clicked
AtGate(email) == [email |-> email, pc |-> "gate", users_df |-> <<>>]

\* df["email"].str.lower() == email.lower(), on any row
AlreadyListed(df, email) ==
    df # <<>> /\ \E i \in 1..Len(df) : Lower(df[i].email) = Lower(email)

InitRequests ==
    /\ users = <<>>
    /\ usersCache = NoUsersEntry /\ vocCache = NoVocEntry
    /\ writes = 0
    /\ session \in [Sessions -> {AtGate(e) : e \in RequestEmails}]
    /\ sheets = VocBefore /\ loaded = NotLoaded
    /\ fn = "none" /\ arg = PyNone /\ ret = NoRet
    /\ trendIn = NoRet /\ trendOut = NoRet
    /\ session_state = NoState

\* the run that follows a click on the request button, lines 631-636: the
\* gate is taken again, and when it fails the button reads True
Rerun_main(s) ==
    /\ session[s].pc = "gate"
    /\ \E uc \in UsersReads :
        /\ usersCache' = uc
        /\ session' = [session EXCEPT
              ![s].users_df = uc.val,
              ![s].pc = IF is_admin(session[s].email) \/ is_approved(uc.val, session[s].email)
                        THEN "dashboard" ELSE "submit"]
    /\ UNCHANGED <<users, writes, vocCache>>

\* submit_access_request, lines 175-182: the table is read through the
\* cache and the e-mail looked up in it
Submit_lookup(s) ==
    /\ session[s].pc = "submit"
    /\ \E openOk \in BOOLEAN :
        IF ~openOk
        THEN /\ session' = [session EXCEPT ![s].pc = "gate"]
             /\ UNCHANGED usersCache
        ELSE \E uc \in UsersReads :
                /\ usersCache' = uc
                /\ session' = [session EXCEPT
                      ![s].users_df = uc.val,
                      ![s].pc = IF AlreadyListed(uc.val, session[s].email) THEN "gate" ELSE "append"]
    /\ UNCHANGED <<users, writes, vocCache>>

\* submit_access_request, lines 184-186: the row is appended and the caches
\* are cleared
Submit_append(s) ==
    /\ session[s].pc = "append"
    /\ Len(users) < MaxUsers /\ writes < MaxWrites
    /\ users' = Append(users, UserRow(session[s].email, STATUS_PENDING))
    /\ writes' = writes + 1
    /\ usersCache' = NoUsersEntry
    /\ vocCache' = NoVocEntry
    /\ session' = [session EXCEPT ![s].pc = "gate"]

RerunMain ==
    /\ \E s \in Sessions : Rerun_main(s)
    /\ UNCHANGED <<classifyVars, loaderVars, trendVars, uiVars>>

SubmitLookup ==
    /\ \E s \in Sessions : Submit_lookup(s)
    /\ UNCHANGED <<classifyVars, loaderVars, trendVars, uiVars>>

SubmitAppend ==
    /\ \E s \in Sessions : Submit_append(s)
    /\ UNCHANGED <<classifyVars, loaderVars, trendVars, uiVars>>

RequestsNext ==
    \/ RerunMain
    \/ SubmitLookup
    \/ SubmitAppend
    \/ Call_approve_user
    \/ Call_revoke_user
    \/ Tick

SpecRequests == InitRequests /\ [][RequestsNext]_vars

(***************************************************************************)
(* Claims on the access requests                                           *)
(***************************************************************************)
\* C23 as claimed: the user_management rows hold at most one row per e-mail
\* address, compared without regard to letter case, after any sequence of
\* requests of one or of several sessions.
C23_Original ==
    \A i \in 1..Len(users), k \in 1..Len(users) :
        i # k => Lower(users[i].email) # Lower(users[k].email)

\* a step appended the row of session s
Appended(s) ==
    /\ Len(users') = Len(users) + 1
    /\ session[s].pc = "append" /\ session'[s].pc = "gate"

\* the table the session looked its e-mail up in did not list it
LookedUpUnlisted ==
    \A s \in Sessions : Appended(s) => ~AlreadyListed(session[s].users_df, session[s].email)

\* C23, what the code does: a row is appended when the table the session
\* read through the cache did not list the e-mail; nothing compares the
\* e-mail with the worksheet's rows at the time of the append.
C23_DedupOnTableRead == [][LookedUpUnlisted]_vars

\* two sessions of the same user, both back at the gate, and two rows of
\* that user in the worksheet
C23_Witness ==
    /\ Len(users) = 2
    /\ Lower(users[1].email) = Lower(users[2].email)
    /\ \A s \in Sessions : session[s].pc = "gate" /\ Lower(session[s].email) = Lower(users[1].email)

(***************************************************************************)
(* create_trend_chart                                                      *)
(***************************************************************************)
MaxRecords == 3
MaxSpan == 3

Date(y, m, d) == [y |-> y, m |-> m, d |-> d]

\* the day after, on the calendar
NextDay(dt) ==
    IF dt.d < DaysInMonth(dt.y, dt.m) THEN Date(dt.y, dt.m, dt.d + 1)
    ELSE IF dt.m < 12 THEN Date(dt.y, dt.m + 1, 1)
    ELSE Date(dt.y + 1, 1, 1)

DateLeq(a, b) ==
    \/ a.y < b.y
    \/ a.y = b.y /\ a.m < b.m
    \/ a.y = b.y /\ a.m = b.m /\ a.d <= b.d

RECURSIVE date_range(_, _)
\* pd.date_range(start, end, freq="D"): every day from start to end
date_range(start, end) ==
    IF DateLeq(start, end) THEN <<start>> \o date_range(NextDay(start), end)
    ELSE <<>>

\* data.groupby(data["date_dt"].dt.date).size(): the days that have records
GroupKeys(data) == {date_of(data[i]) : i \in 1..Len(data)}
GroupSize(data, day) == Cardinality({i \in 1..Len(data) : date_of(data[i]) = day})

\* a plausible slip: how="inner", the days without records are lost
create_trend_chart_InnerMerge(data, start, end) ==
    LET all_days == date_range(start, end)
        hit == SelectSeq(all_days, LAMBDA day : day \in GroupKeys(data))
    IN [i \in 1..Len(hit) |-> [date_dt |-> hit[i], count |-> GroupSize(data, hit[i])]]

\* the merged frame the line chart draws: one row per day of the range,
\* the day's group size, 0 where the left merge found no group
create_trend_chart(data, start, end) ==
    LET all_days == date_range(start, end)
    IN [i \in 1..Len(all_days) |->
           [date_dt |-> all_days[i],
            count |-> IF all_days[i] \in GroupKeys(data)
                      THEN GroupSize(data, all_days[i]) ELSE 0]]

\* the days the harness draws from: the end of February 2025 onwards
Day0 == Date(2025, 2, 27)
RECURSIVE DaysFrom(_, _)
DaysFrom(day, n) == IF n = 0 THEN {day} ELSE {day} \cup DaysFrom(NextDay(day), n - 1)
TrendDays == DaysFrom(Day0, MaxSpan)

\* a record's timestamp as load_voc_data leaves it
StampOf(day) == to_kst([y |-> day.y, m |-> day.m, d |-> day.d, hour |-> 0])

RECURSIVE StampLists(_)
StampLists(n) ==
    IF n = 0 THEN {<<>>}
    ELSE LET shorter == StampLists(n - 1)
         IN shorter \cup {Append(s, StampOf(day)) : s \in shorter, day \in TrendDays}

NoTrend == [called |-> FALSE, merged |-> <<>>]

InitTrend ==
    /\ trendIn \in {r \in [data : StampLists(MaxRecords), start : TrendDays, end : TrendDays] :
                       DateLeq(r.start, r.end)}
    /\ trendOut = NoTrend
    /\ session_state = NoState
    /\ fn = "none" /\ arg = PyNone /\ ret = NoRet
    /\ sheets = <<>> /\ loaded = NotLoaded
    /\ users = <<>> /\ usersCache = NoUsersEntry /\ vocCache = NoVocEntry
    /\ writes = 0 /\ session = NoRun

Call_create_trend_chart ==
    /\ ~trendOut.called
    /\ trendOut' = [called |-> TRUE,
                    merged |-> create_trend_chart(trendIn.data, trendIn.start, trendIn.end)]
    /\ UNCHANGED <<trendIn, classifyVars, loaderVars, appVars, uiVars>>

TrendNext == Call_create_trend_chart

SpecTrend == InitTrend /\ [][TrendNext]_vars

(***************************************************************************)
(* Claims on the trend series                                              *)
(***************************************************************************)
RECURSIVE DaysBeforeMonth(_, _)
DaysBeforeMonth(y, m) ==
    IF m = 1 THEN 0 ELSE DaysBeforeMonth(y, m - 1) + DaysInMonth(y, m - 1)

\* date.toordinal(): the day's number in the proleptic Gregorian calendar
ToOrdinal(day) ==
    LET py == day.y - 1
    IN 365 * py + (py \div 4) - (py \div 100) + (py \div 400)
         + DaysBeforeMonth(day.y, day.m) + day.d

\* C10: the series has (end - start).days + 1 entries, the i-th for the
\* i-th calendar day of [start, end], its count the number of records dated
\* that day, 0 when there is none.
C10_OneEntryPerDay ==
    trendOut.called =>
        LET n == ToOrdinal(trendIn.end) - ToOrdinal(trendIn.start) + 1
            merged == trendOut.merged
        IN /\ Len(merged) = n
           /\ \A i \in 1..Len(merged) :
                 /\ ToOrdinal(merged[i].date_dt) = ToOrdinal(trendIn.start) + i - 1
                 /\ merged[i].count
                      = Cardinality({k \in 1..Len(trendIn.data) :
                                        date_of(trendIn.data[k]) = merged[i].date_dt})

\* records dated day 0, day 0 and day 2 over [day 0, day 2] give 2, 0, 1
C10_Witness ==
    /\ trendOut.called
    /\ trendIn.start = Day0 /\ trendIn.end = NextDay(NextDay(Day0))
    /\ trendIn.data = <<StampOf(Day0), StampOf(Day0), StampOf(NextDay(NextDay(Day0)))>>
    /\ [i \in 1..Len(trendOut.merged) |-> trendOut.merged[i].count] = <<2, 0, 1>>

(***************************************************************************)
(* create_donut_chart                                                      *)
(***************************************************************************)
\* the L1 tags load_voc_data can give a record: the values of
\* L2_TO_L1_MAPPING, the last of them also the fill for an unmapped L2 tag
L1_ACCOUNT == "account"
L1_SYSTEM  == "system"
L1_PAYMENT == "payment"
L1_PLAY    == "play"
L1_EVENT   == "event"
L1_ABUSE   == "abuse"
L1_POLICY  == "policy"
L1Tags == {L1_ACCOUNT, L1_SYSTEM, L1_PAYMENT, L1_PLAY, L1_EVENT, L1_ABUSE, L1_POLICY, GITA}

MaxPerTag == 2
TOP_N == 4
DONUT_LIMIT == 5

Entry(label, value) == [label |-> label, value |-> value]

\* the place of a label in the order the labels first appear in the column
PlaceOf(seen, c) == CHOOSE i \in 1..Len(seen) : seen[i] = c

\* data[group_by].value_counts(): the labels that occur, by descending count,
\* labels of equal count in the order of their first appearance
value_counts(col, seen) ==
    LET S == {c \in DOMAIN col : col[c] > 0}
        Rank(c) == Cardinality({o \in S :
                       \/ col[o] > col[c]
                       \/ col[o] = col[c] /\ PlaceOf(seen, o) < PlaceOf(seen, c)})
    IN [r \in 1..Cardinality(S) |->
           LET c == CHOOSE x \in S : Rank(x) = r - 1 IN Entry(c, col[c])]

\* Series.nlargest(n), keep='first': the n largest, the earlier of two equals
nlargest(counts, n) ==
    LET Rank(i) == Cardinality({j \in 1..Len(counts) :
                        \/ counts[j].value > counts[i].value
                        \/ counts[j].value = counts[i].value /\ j < i})
        m == IF Len(counts) < n THEN Len(counts) ELSE n
    IN [r \in 1..m |-> counts[CHOOSE i \in 1..Len(counts) : Rank(i) = r - 1]]

RECURSIVE SumValues(_)
SumValues(entries) ==
    IF entries = <<>> THEN 0 ELSE Head(entries).value + SumValues(Tail(entries))

\* a plausible slip: the fifth category is neither drawn nor summed
create_donut_chart_DropFifth(counts) ==
    IF Len(counts) > DONUT_LIMIT
    THEN nlargest(counts, TOP_N)
           \o <<Entry(GITA, SumValues(SubSeq(counts, DONUT_LIMIT + 1, Len(counts))))>>
    ELSE counts

\* chart_data, the labels and values of the pie
create_donut_chart(counts) ==
    IF Len(counts) > DONUT_LIMIT
    THEN nlargest(counts, TOP_N)
           \o <<Entry(GITA, SumValues(SubSeq(counts, TOP_N + 1, Len(counts))))>>
    ELSE counts

\* orders in which the tags can first appear in the column
FirstSeen ==
    { <<L1_ACCOUNT, L1_SYSTEM, L1_PAYMENT, L1_PLAY, L1_EVENT, L1_ABUSE, L1_POLICY, GITA>>,
      <<GITA, L1_POLICY, L1_ABUSE, L1_EVENT, L1_PLAY, L1_PAYMENT, L1_SYSTEM, L1_ACCOUNT>>,
      <<L1_PLAY, GITA, L1_ACCOUNT, L1_EVENT, L1_SYSTEM, L1_POLICY, L1_PAYMENT, L1_ABUSE>> }

InitDonut ==
    /\ fn = "create_donut_chart"
    /\ arg \in [col : [L1Tags -> 0..MaxPerTag], seen : FirstSeen]
    /\ ret = [called |-> FALSE, counts |-> <<>>, chart_data |-> <<>>]
    /\ sheets = <<>> /\ loaded = NotLoaded
    /\ users = <<>> /\ usersCache = NoUsersEntry /\ vocCache = NoVocEntry
    /\ writes = 0 /\ session = NoRun
    /\ trendIn = NoRet /\ trendOut = NoTrend
    /\ session_state = NoState

Call_create_donut_chart ==
    /\ fn = "create_donut_chart" /\ ~ret.called
    /\ LET counts == value_counts(arg.col, arg.seen)
       IN ret' = [called |-> TRUE, counts |-> counts,
                  chart_data |-> create_donut_chart(counts)]
    /\ UNCHANGED <<fn, arg, loaderVars, appVars, trendVars, uiVars>>

DonutNext == Call_create_donut_chart

SpecDonut == InitDonut /\ [][DonutNext]_vars

(***************************************************************************)
(* Claims on the category distribution                                     *)
(***************************************************************************)
Occurring == {c \in L1Tags : arg.col[c] > 0}
RECURSIVE SumOver(_, _)
SumOver(S, col) ==
    IF S = {} THEN 0
    ELSE LET c == CHOOSE x \in S : TRUE IN col[c] + SumOver(S \ {c}, col)

\* C11: with at most 5 distinct categories the distribution is the categories
\* with their own counts and nothing else; with more than 5 it is 5 entries,
\* four distinct categories with their own counts, none smaller than the
\* count of a category left out, then one 'Other' entry holding the sum of
\* the categories left out; the values sum to the number of records.
C11_TopFourAndOther ==
    ret.called =>
        LET chart == ret.chart_data
            n == Cardinality(Occurring)
            Labels(k) == {chart[i].label : i \in 1..k}
        IN /\ SumValues(chart) = SumOver(L1Tags, arg.col)
           /\ n <= TOP_N + 1 =>
                 /\ Len(chart) = n
                 /\ Labels(n) = Occurring
                 /\ \A i \in 1..n : chart[i].value = arg.col[chart[i].label]
           /\ n > TOP_N + 1 =>
                 /\ Len(chart) = TOP_N + 1
                 /\ Cardinality(Labels(TOP_N)) = TOP_N
                 /\ Labels(TOP_N) \subseteq Occurring
                 /\ \A i \in 1..TOP_N :
                       /\ chart[i].value = arg.col[chart[i].label]
                       /\ \A c \in Occurring \ Labels(TOP_N) : arg.col[c] <= chart[i].value
                 /\ chart[TOP_N + 1].label = GITA
                 /\ chart[TOP_N + 1].value = SumOver(Occurring \ Labels(TOP_N), arg.col)

\* six categories, the four largest kept and the two smallest summed
C11_Witness ==
    /\ ret.called
    /\ Cardinality(Occurring) = 6
    /\ Len(ret.chart_data) = 5
    /\ ret.chart_data[5].value = 2
    /\ \A i \in 1..4 : ret.chart_data[i].value = 2

\* the places of the distribution that carry a label
PlacesOf(label) == {i \in 1..Len(ret.chart_data) : ret.chart_data[i].label = label}

\* C24 as claimed: the labels of the distribution are pairwise distinct for
\* every column, also when 'Other' is itself one of the four largest
\* categories of the column.
C24_Original ==
    ret.called =>
        \A i \in 1..Len(ret.chart_data), k \in 1..Len(ret.chart_data) :
            i # k => ret.chart_data[i].label # ret.chart_data[k].label

\* C24, what the code does: every label but 'Other' stands at one place at
\* most; with more than five categories, 'Other' among the four largest
\* stands at two places, once with its own count and once, last, with the
\* sum of the categories left out; in every other case it stands once at most.
C24_OtherTwiceWhenInTopFour ==
    ret.called =>
        /\ \A c \in L1Tags \ {GITA} : Cardinality(PlacesOf(c)) <= 1
        /\ IF /\ Cardinality(Occurring) > TOP_N + 1
              /\ \E i \in 1..TOP_N : nlargest(ret.counts, TOP_N)[i].label = GITA
           THEN /\ Cardinality(PlacesOf(GITA)) = 2
                /\ Len(ret.chart_data) \in PlacesOf(GITA)
                /\ \E i \in PlacesOf(GITA) :
                      i <= TOP_N /\ ret.chart_data[i].value = arg.col[GITA]
           ELSE Cardinality(PlacesOf(GITA)) <= 1

\* six categories, 'Other' the largest of them: the distribution opens with
\* 'Other' and its two records and closes with 'Other' and the two left out
C24_Witness ==
    /\ ret.called
    /\ Cardinality(Occurring) = 6
    /\ arg.col[GITA] = 2 /\ \A c \in Occurring \ {GITA} : arg.col[c] = 1
    /\ PlacesOf(GITA) = {1, 5}
    /\ ret.chart_data[1].value = 2 /\ ret.chart_data[5].value = 2

(***************************************************************************)
(* mask_phone_number                                                       *)
(***************************************************************************)
\* the class [-.\s] of the pattern
PhoneSeps == {"-", "."} \cup Whitespace
PHONE_HEAD == <<"0", "1", "0">>
STARS == <<"*", "*", "*", "*">>

\* the places i..j of s are all digits, and inside s
AllDigits(s, i, j) == j <= Len(s) /\ \A k \in i..j : IsDigit(s[k])

\* the place after an optional separator at place i
AfterSep(s, i) == IF i <= Len(s) /\ s[i] \in PhoneSeps THEN i + 1 ELSE i

\* the optional separator at place i, as text
SepAt(s, i) == IF i <= Len(s) /\ s[i] \in PhoneSeps THEN <<s[i]>> ELSE <<>>

\* (010[-.\s]?)\d{3,4}([-.\s]?)\d{4} tried at place i with a middle run of n
\* digits: the match ends before the place returned, 0 for no match
PhoneEnd(s, i, n) ==
    IF i + 2 <= Len(s) /\ SubSeq(s, i, i + 2) = PHONE_HEAD
    THEN LET p == AfterSep(s, i + 3)
             q == AfterSep(s, p + n)
         IN IF AllDigits(s, p, p + n - 1) /\ AllDigits(s, q, q + 3) THEN q + 4 ELSE 0
    ELSE 0

\* the middle run the regex engine settles on: four digits before three
PhoneMid(s, i) == IF PhoneEnd(s, i, 4) # 0 THEN 4 ELSE IF PhoneEnd(s, i, 3) # 0 THEN 3 ELSE 0

\* re.sub from place i on: \1****\2**** for each match, left to right,
\* matches not overlapping
RECURSIVE sub_phone(_, _)
sub_phone(s, i) ==
    IF i > Len(s) THEN <<>>
    ELSE LET n == PhoneMid(s, i) IN
         IF n = 0 THEN <<s[i]>> \o sub_phone(s, i + 1)
         ELSE LET p == AfterSep(s, i + 3) IN
              PHONE_HEAD \o SepAt(s, i + 3) \o STARS \o SepAt(s, p + n) \o STARS
                  \o sub_phone(s, PhoneEnd(s, i, n))

mask_phone_number(text) == sub_phone(text, 1)

(***************************************************************************)
(* get_yesterday_summary_by_game                                           *)
(***************************************************************************)
MaxVocRows == 2

\* the keys of GAME_ICONS, in its order
FixedGames == <<GAME_NEWMATGO, GAME_SUTDA, GAME_POKER, GAME_SHOWDOWN, GAME_NEWVEGAS>>
FixedGameSet == {FixedGames[i] : i \in 1..Len(FixedGames)}

\* the day before, on the calendar: date - timedelta(days=1)
PrevDay(dt) ==
    IF dt.d > 1 THEN Date(dt.y, dt.m, dt.d - 1)
    ELSE IF dt.m > 1 THEN Date(dt.y, dt.m - 1, DaysInMonth(dt.y, dt.m - 1))
    ELSE Date(dt.y - 1, 12, 31)

\* column names of the frames of lines 384-387
COL_DATE_DT == "date_dt"
COL_GAME    == "game"
COL_COUNT   == "count"
\* the key line 386 indexes daily_counts with, and the key of line 387
KEY_D1 == "datedate_dt"
KEY_D2 == "date_dt"

\* voc_df[date isin days].groupby([date, game]).size().reset_index(name="count")
daily_counts(voc_df, days) ==
    LET kept == SelectSeq(voc_df, LAMBDA r : date_of(r.date_dt) \in days)
        keys == {<<date_of(kept[i].date_dt), kept[i].game>> : i \in 1..Len(kept)}
    IN [columns |-> {COL_DATE_DT, COL_GAME, COL_COUNT},
        rows |-> {[date_dt |-> k[1], game |-> k[2],
                   count |-> Cardinality({i \in 1..Len(kept) :
                                 date_of(kept[i].date_dt) = k[1] /\ kept[i].game = k[2]})] :
                  k \in keys}]

\* frame[frame[key] == day].set_index("game")["count"].to_dict(); RAISE (a
\* KeyError) when the frame has no column of that name
counts_of(frame, key, day) ==
    IF key \notin frame.columns THEN RAISE
    ELSE LET hit == {r \in frame.rows : r.date_dt = day}
         IN [g \in {r.game : r \in hit} |-> (CHOOSE r \in hit : r.game = g).count]

\* dict.get(game, 0)
get(d, game) == IF game \in DOMAIN d THEN d[game] ELSE 0

\* the sample of a game with no record of the day
SAMPLE_NONE == "---"
TITLE_NONE == <<"no", " ", "VOC">>
NoSample == [title |-> TITLE_NONE, content |-> <<SAMPLE_NONE>>, tag |-> SAMPLE_NONE,
             insight |-> "none"]

\* frame.nlargest(1, 'content_len').iloc[0]: the first record of the longest body
nlargest_content_len(frame) ==
    frame[CHOOSE i \in 1..Len(frame) :
              /\ \A k \in 1..Len(frame) : Len(frame[k].body) <= Len(frame[i].body)
              /\ \A k \in 1..(i - 1) : Len(frame[k].body) < Len(frame[i].body)]

\* the title, masked summary and tag of a record, as the sample
SampleOf(top) ==
    [title |-> top.title, content |-> mask_phone_number(top.summary), tag |-> top.l2]

\* the level of the insight line: neg_ratio >= 30, >= 10, below
InsightOf(neg_count, count_d1) ==
    IF count_d1 > 0
    THEN IF neg_count * 100 >= 30 * count_d1 THEN "severe"
         ELSE IF neg_count * 100 >= 10 * count_d1 THEN "caution"
         ELSE "good"
    ELSE "none"

\* the entry of one game: count, delta, the sample, and
\* neg_ratio = neg_count / count_d1 * 100 kept as the fraction num / den
GameSummary(voc_df, game, yesterday, counts_d1, counts_d2) ==
    LET game_df_d1 == SelectSeq(voc_df, LAMBDA r :
                          date_of(r.date_dt) = yesterday /\ r.game = game)
        count_d1 == get(counts_d1, game)
        count_d2 == get(counts_d2, game)
        neg_df_d1 == SelectSeq(game_df_d1, LAMBDA r : r.sentiment = SENT_NEG)
        neg_count == Len(neg_df_d1)
        picked == IF neg_df_d1 # <<>> THEN SampleOf(nlargest_content_len(neg_df_d1))
                  ELSE IF count_d1 > 0 THEN SampleOf(nlargest_content_len(game_df_d1))
                  ELSE [title |-> NoSample.title, content |-> NoSample.content,
                        tag |-> NoSample.tag]
    IN [count |-> count_d1,
        delta |-> count_d1 - count_d2,
        sample |-> [title |-> picked.title, content |-> picked.content, tag |-> picked.tag,
                    insight |-> InsightOf(neg_count, count_d1)],
        neg_ratio |-> IF count_d1 > 0 THEN [num |-> neg_count * 100, den |-> count_d1]
                      ELSE [num |-> 0, den |-> 1]]

NoResults == [g \in {} |-> 0]

\* the function with line 386 reading the column line 387 reads
get_yesterday_summary_by_game_SameKey(voc_df, current_date) ==
    IF voc_df = <<>> THEN [called |-> TRUE, raised |-> FALSE, results |-> NoResults]
    ELSE LET yesterday == PrevDay(current_date)
             two_days_ago == PrevDay(yesterday)
             frame == daily_counts(voc_df, {yesterday, two_days_ago})
             counts_d1 == counts_of(frame, KEY_D2, yesterday)
             counts_d2 == counts_of(frame, KEY_D2, two_days_ago)
         IN [called |-> TRUE, raised |-> FALSE,
             results |-> [g \in FixedGameSet |->
                             GameSummary(voc_df, g, yesterday, counts_d1, counts_d2)]]

get_yesterday_summary_by_game(voc_df, current_date) ==
    IF voc_df = <<>> THEN [called |-> TRUE, raised |-> FALSE, results |-> NoResults]
    ELSE LET yesterday == PrevDay(current_date)
             two_days_ago == PrevDay(yesterday)
             frame == daily_counts(voc_df, {yesterday, two_days_ago})
             counts_d1 == counts_of(frame, KEY_D1, yesterday)
             counts_d2 == counts_of(frame, KEY_D2, two_days_ago)
         IN IF KEY_D1 \notin frame.columns \/ KEY_D2 \notin frame.columns
            THEN [called |-> TRUE, raised |-> TRUE, results |-> NoResults]
            ELSE [called |-> TRUE, raised |-> FALSE,
                  results |-> [g \in FixedGameSet |->
                                  GameSummary(voc_df, g, yesterday, counts_d1, counts_d2)]]

\* the texts of a record the harness draws from: a long body that holds a
\* phone number, and a short one
SummaryContents ==
    {[title |-> <<"T", "1">>, l2 |-> "payment",
      body |-> <<"c", "a", "l", "l", " ", "0", "1", "0", "-", "1", "2", "3", "4", "-",
                 "5", "6", "7", "8">>],
     [title |-> <<"T", "2">>, l2 |-> "login", body |-> <<"h", "e", "l", "p">>]}

\* the rows the harness draws from; the summary column is the one of line 359
SummaryRows ==
    {[date_dt |-> StampOf(day), game |-> g, sentiment |-> s,
      title |-> c.title, l2 |-> c.l2, body |-> c.body,
      summary |-> truncate_inquiry_content(PyStr(c.body))] :
        day \in TrendDays, g \in {GAME_NEWMATGO, GAME_POKER, GITA},
        s \in {SENT_NEG, SENT_NEU}, c \in SummaryContents}

RECURSIVE RowLists(_, _)
RowLists(rows, n) ==
    IF n = 0 THEN {<<>>}
    ELSE LET shorter == RowLists(rows, n - 1)
         IN shorter \cup {Append(s, r) : s \in shorter, r \in rows}

AsOfDates == {Date(2025, 3, 1), Date(2025, 3, 2)}

NotCalled == [called |-> FALSE, raised |-> FALSE, results |-> NoResults]

InitSummary ==
    /\ fn = "get_yesterday_summary_by_game"
    /\ arg \in [voc_df : RowLists(SummaryRows, MaxVocRows), current_date : AsOfDates]
    /\ ret = NotCalled
    /\ sheets = <<>> /\ loaded = NotLoaded
    /\ users = <<>> /\ usersCache = NoUsersEntry /\ vocCache = NoVocEntry
    /\ writes = 0 /\ session = NoRun
    /\ trendIn = NoRet /\ trendOut = NoTrend
    /\ session_state = NoState

Call_get_yesterday_summary_by_game ==
    /\ fn = "get_yesterday_summary_by_game" /\ ~ret.called
    /\ ret' = get_yesterday_summary_by_game(arg.voc_df, arg.current_date)
    /\ UNCHANGED <<fn, arg, loaderVars, appVars, trendVars, uiVars>>

SummaryNext == Call_get_yesterday_summary_by_game

SpecSummary == InitSummary /\ [][SummaryNext]_vars

(***************************************************************************)
(* Claims on the yesterday summary                                         *)
(***************************************************************************)
\* the number of the table's records of a game dated a day
RecordsOn(game, day) ==
    Cardinality({i \in 1..Len(arg.voc_df) :
                    date_of(arg.voc_df[i].date_dt) = day /\ arg.voc_df[i].game = game})

\* C12 as claimed: the summary returns without raising, and for a non-empty
\* table it has an entry for each of the five games, its count the number of
\* the game's records dated asOf-1 and its delta that count minus the number
\* dated asOf-2.
C12_Original ==
    ret.called =>
        /\ ~ret.raised
        /\ arg.voc_df # <<>> =>
              /\ DOMAIN ret.results = FixedGameSet
              /\ \A g \in FixedGameSet :
                    LET d1 == RecordsOn(g, PrevDay(arg.current_date))
                        d2 == RecordsOn(g, PrevDay(PrevDay(arg.current_date)))
                    IN ret.results[g].count = d1 /\ ret.results[g].delta = d1 - d2

\* C12, what the code does: an empty table gives an empty summary, and every
\* non-empty table ends in the KeyError of line 386, with no summary.
C12_RaisesOnEveryTable ==
    ret.called =>
        /\ ret.results = NoResults
        /\ ret.raised <=> arg.voc_df # <<>>

\* a table with a record dated asOf-1 and one dated asOf-2 was summarised
C12_Witness ==
    /\ ret.called
    /\ RecordsOn(GAME_POKER, PrevDay(arg.current_date)) = 1
    /\ RecordsOn(GAME_POKER, PrevDay(PrevDay(arg.current_date))) = 1
    /\ ret.raised

\* the number of the table's negative records of a game dated a day
NegativeOn(game, day) ==
    Cardinality({i \in 1..Len(arg.voc_df) :
                    /\ date_of(arg.voc_df[i].date_dt) = day
                    /\ arg.voc_df[i].game = game
                    /\ arg.voc_df[i].sentiment = SENT_NEG})

\* C20 as claimed: the summary of a non-empty table gives each of the five
\* games a negative ratio whose numerator and denominator count the same
\* records, the game's records dated asOf-1, so that it lies in [0, 100] and
\* is 0 for a game with no record that day.
C20_Original ==
    (ret.called /\ arg.voc_df # <<>>) =>
        \A g \in FixedGameSet :
            /\ g \in DOMAIN ret.results
            /\ LET ratio == ret.results[g].neg_ratio
                   d1 == RecordsOn(g, PrevDay(arg.current_date))
               IN /\ 0 <= ratio.num /\ ratio.num <= 100 * ratio.den
                  /\ d1 = 0 => ratio.num = 0
                  /\ d1 > 0 => /\ ratio.den = d1
                               /\ ratio.num = 100 * NegativeOn(g, PrevDay(arg.current_date))

\* C20, what the code does: no negative ratio is computed for any table;
\* the summary is empty, by the early return or by the KeyError of line 386.
C20_NoRatioComputed ==
    ret.called => DOMAIN ret.results = {}

\* a game with a negative and a neutral record dated asOf-1 was summarised
C20_Witness ==
    /\ ret.called /\ ret.raised
    /\ RecordsOn(GAME_NEWMATGO, PrevDay(arg.current_date)) = 2
    /\ NegativeOn(GAME_NEWMATGO, PrevDay(arg.current_date)) = 1

\* the places of the table's records of a game dated a day
PlacesOn(game, day) ==
    {i \in 1..Len(arg.voc_df) :
        date_of(arg.voc_df[i].date_dt) = day /\ arg.voc_df[i].game = game}

\* the sample shows the record at place i, one of the longest bodies of places
ShowsLongest(sample, places, i) ==
    /\ i \in places
    /\ \A k \in places : Len(arg.voc_df[k].body) <= Len(arg.voc_df[i].body)
    /\ sample.title = arg.voc_df[i].title
    /\ sample.tag = arg.voc_df[i].l2
    /\ sample.content = mask_phone_number(arg.voc_df[i].summary)

\* C21 as claimed: the summary of a non-empty table gives each of the five
\* games a sample: the longest-body record among the game's negative records
\* dated asOf-1; with no negative record, the longest-body record among all of
\* the game's records of that day; with no record that day, the 'no data'
\* sample.
C21_Original ==
    (ret.called /\ arg.voc_df # <<>>) =>
        \A g \in FixedGameSet :
            /\ g \in DOMAIN ret.results
            /\ LET all == PlacesOn(g, PrevDay(arg.current_date))
                   negs == {i \in all : arg.voc_df[i].sentiment = SENT_NEG}
                   sample == ret.results[g].sample
               IN IF negs # {} THEN \E i \in negs : ShowsLongest(sample, negs, i)
                  ELSE IF all # {} THEN \E i \in all : ShowsLongest(sample, all, i)
                  ELSE sample = NoSample

\* C21, what the code does: a table that holds a record of a game dated
\* asOf-1 ends in the KeyError of line 386, and no game gets a sample, not
\* even the 'no data' one.
C21_NoSampleChosen ==
    (ret.called /\ \E g \in Games : PlacesOn(g, PrevDay(arg.current_date)) # {}) =>
        /\ ret.raised
        /\ \A g \in FixedGameSet : g \notin DOMAIN ret.results

\* a game with a short negative record and a longer neutral one dated asOf-1
\* was summarised
C21_Witness ==
    /\ ret.called /\ ret.raised
    /\ \E i, k \in PlacesOn(GAME_NEWMATGO, PrevDay(arg.current_date)) :
          /\ arg.voc_df[i].sentiment = SENT_NEG
          /\ arg.voc_df[k].sentiment = SENT_NEU
          /\ Len(arg.voc_df[i].body) < Len(arg.voc_df[k].body)

(***************************************************************************)
(* The game / platform checkbox tree of the sidebar                        *)
(***************************************************************************)
\* keys of st.session_state are texts, kept as sequences of words
SELECT_ALL == <<"select_all">>
ALL_MARK   == "(all)"
W_MOB      == <<PLAT_MOB>>
W_PC       == <<PLAT_PC>>
W_KAKAO    == <<"for", " ", "kakao">>
GroupKey(game)    == <<game, " ", ALL_MARK>>
Leaf(game, words) == <<game, " ">> \o words

Range(s) == {s[i] : i \in 1..Len(s)}

\* the keys of game_filters, in the dict's order
FilterGames == FixedGames \o <<GITA>>

game_filters(game) ==
    IF game \in {GAME_NEWMATGO, GAME_SUTDA, GAME_POKER}
    THEN <<GroupKey(game), Leaf(game, W_MOB), Leaf(game, W_PC), Leaf(game, W_KAKAO)>>
    ELSE IF game \in {GAME_SHOWDOWN, GAME_NEWVEGAS}
    THEN <<GroupKey(game), Leaf(game, W_MOB), Leaf(game, W_PC)>>
    ELSE << <<GITA>> >>

all_options == Flatten([i \in 1..Len(FilterGames) |-> game_filters(FilterGames[i])])
all_child ==
    Flatten([i \in 1..Len(FilterGames) |->
                LET opts == game_filters(FilterGames[i])
                IN IF ALL_MARK \in Range(opts[1]) THEN Tail(opts) ELSE opts])

\* st.session_state.get(key, True)
StateGet(s, key) == IF key \in DOMAIN s THEN s[key] ELSE TRUE

\* the state the first run of main leaves: every box checked
AllSelected == [k \in {SELECT_ALL} \cup Range(all_options) |-> TRUE]

update_master_checkbox(s) ==
    LET grouped == {g \in Range(FilterGames) : Len(game_filters(g)) > 1}
        solo    == Range(FilterGames) \ grouped
        all_groups == \A g \in grouped : StateGet(s, GroupKey(g))
        all_solo   == \A g \in solo : StateGet(s, game_filters(g)[1])
    IN [s EXCEPT ![SELECT_ALL] = all_groups /\ all_solo]

master_toggle(s) ==
    LET val == StateGet(s, SELECT_ALL)
    IN [k \in DOMAIN s |-> IF k \in Range(all_options) THEN val ELSE s[k]]

\* a plausible slip: the group's leaves keep their values
group_toggle_KeepLeaves(s, game_key) == update_master_checkbox(s)

group_toggle(s, game_key) ==
    LET group_all == StateGet(s, GroupKey(game_key))
        leaves == Range(Tail(game_filters(game_key)))
    IN update_master_checkbox([k \in DOMAIN s |-> IF k \in leaves THEN group_all ELSE s[k]])

child_toggle(s, game_key) ==
    IF Len(game_filters(game_key)) > 1
    THEN LET all_children == \A opt \in Range(Tail(game_filters(game_key))) : StateGet(s, opt)
         IN update_master_checkbox([s EXCEPT ![GroupKey(game_key)] = all_children])
    ELSE update_master_checkbox(s)

\* a click on a checkbox: the widget's key takes the new value, then the
\* on_change callback runs
Clicked(s, key) == [s EXCEPT ![key] = ~s[key]]

InitBoxes ==
    /\ session_state = AllSelected
    /\ fn = "none" /\ arg = PyNone /\ ret = NoRet
    /\ sheets = <<>> /\ loaded = NotLoaded
    /\ users = <<>> /\ usersCache = NoUsersEntry /\ vocCache = NoVocEntry
    /\ writes = 0 /\ session = NoRun
    /\ trendIn = NoRet /\ trendOut = NoTrend

Click_select_all ==
    /\ session_state' = master_toggle(Clicked(session_state, SELECT_ALL))
    /\ UNCHANGED <<classifyVars, loaderVars, appVars, trendVars>>

Click_group(game) ==
    /\ Len(game_filters(game)) > 1 /\ ALL_MARK \in Range(game_filters(game)[1])
    /\ session_state' = group_toggle(Clicked(session_state, GroupKey(game)), game)
    /\ UNCHANGED <<classifyVars, loaderVars, appVars, trendVars>>

Click_child(game, opt) ==
    /\ Len(game_filters(game)) > 1 /\ ALL_MARK \in Range(game_filters(game)[1])
    /\ opt \in Range(Tail(game_filters(game)))
    /\ session_state' = child_toggle(Clicked(session_state, opt), game)
    /\ UNCHANGED <<classifyVars, loaderVars, appVars, trendVars>>

Click_solo(game) ==
    /\ ~(Len(game_filters(game)) > 1 /\ ALL_MARK \in Range(game_filters(game)[1]))
    /\ session_state' = update_master_checkbox(Clicked(session_state, game_filters(game)[1]))
    /\ UNCHANGED <<classifyVars, loaderVars, appVars, trendVars>>

BoxesNext ==
    \/ Click_select_all
    \/ \E game \in Range(FilterGames) : Click_group(game)
    \/ \E game \in Range(FilterGames), opt \in Range(all_child) : Click_child(game, opt)
    \/ \E game \in Range(FilterGames) : Click_solo(game)

SpecBoxes == InitBoxes /\ [][BoxesNext]_vars

(***************************************************************************)
(* Claims on the checkbox tree                                             *)
(***************************************************************************)
GroupedGames == {g \in Range(FilterGames) : Len(game_filters(g)) > 1}
LeavesOf(game) == Range(Tail(game_filters(game)))

\* each group box is checked exactly when all its leaves are, and the master
\* box exactly when every group box and the solo leaf are
BoxesConsistent ==
    /\ \A g \in GroupedGames :
          session_state[GroupKey(g)] <=> \A opt \in LeavesOf(g) : session_state[opt]
    /\ session_state[SELECT_ALL]
          <=> /\ \A g \in GroupedGames : session_state[GroupKey(g)]
              /\ session_state[<<GITA>>]

\* a click on a group box gives every leaf of the group the box's new value
GroupSetsLeaves ==
    \A g \in GroupedGames :
        Click_group(g) =>
            /\ session_state'[GroupKey(g)] = ~session_state[GroupKey(g)]
            /\ \A opt \in LeavesOf(g) : session_state'[opt] = session_state'[GroupKey(g)]

\* a click on the master box gives every box the master's new value
MasterSetsAll ==
    Click_select_all =>
        /\ session_state'[SELECT_ALL] = ~session_state[SELECT_ALL]
        /\ \A k \in DOMAIN session_state : session_state'[k] = session_state'[SELECT_ALL]

\* C19: after any sequence of clicks from the all-selected state, each group
\* box is checked exactly when all leaves of its game are checked and the
\* master box exactly when every group box and the solo leaf are checked; a
\* click on a group box sets its leaves to the box's value, and a click on
\* the master box sets every box to the master's value.
C19_BoxesFollowLeaves ==
    /\ []BoxesConsistent
    /\ [][GroupSetsLeaves]_vars
    /\ [][MasterSetsAll]_vars

\* one leaf of a game is unchecked, so are its group box and the master box,
\* while another game's group box is still checked
C19_Witness ==
    /\ ~session_state[Leaf(GAME_POKER, W_PC)]
    /\ session_state[Leaf(GAME_POKER, W_MOB)]
    /\ ~session_state[GroupKey(GAME_POKER)]
    /\ session_state[GroupKey(GAME_SUTDA)]
    /\ ~session_state[SELECT_ALL]

(***************************************************************************)
(* main: the game / platform / date filter, lines 739-784                  *)
(***************************************************************************)
MaxPicked == 2

\* the value of the date widget: None, one date, or a tuple of dates
NoRange == [kind |-> "none", bounds |-> <<>>]
OneDate(day) == [kind |-> "date", bounds |-> <<day>>]
TupleOf(days) == [kind |-> "tuple", bounds |-> days]
\* Python's truth value of it
Truthy(range) == range.kind = "date" \/ (range.kind = "tuple" /\ range.bounds # <<>>)

\* the text of a sequence of words: a single word is a label
Text(words) == IF Len(words) = 1 THEN words[1] ELSE words

\* `sub in opt`, on words
HasWords(opt, sub) ==
    \E i \in 0..(Len(opt) - Len(sub)) : SubSeq(opt, i + 1, i + Len(sub)) = sub

\* opt.replace(sub, ""), for the one occurrence an option has
RemoveWords(opt, sub) ==
    IF HasWords(opt, sub)
    THEN LET i == CHOOSE j \in 0..(Len(opt) - Len(sub)) : SubSeq(opt, j + 1, j + Len(sub)) = sub
         IN SubSeq(opt, 1, i) \o SubSeq(opt, i + Len(sub) + 1, Len(opt))
    ELSE opt

\* opt.rsplit(" ", 1)
rsplit(opt) ==
    IF \E i \in 1..Len(opt) : opt[i] = " "
    THEN LET i == CHOOSE j \in 1..Len(opt) :
                     opt[j] = " " /\ \A k \in (j + 1)..Len(opt) : opt[k] # " "
         IN <<SubSeq(opt, 1, i - 1), SubSeq(opt, i + 1, Len(opt))>>
    ELSE <<opt>>

\* a plausible slip: every leaf selects its game on every platform
Condition_GameOnly(opt, r) ==
    IF HasWords(opt, <<" ">> \o W_KAKAO)
    THEN r.game = Text(RemoveWords(opt, <<" ">> \o W_KAKAO))
    ELSE r.game = Text(rsplit(opt)[1])

\* the condition a selected option adds, on a record
Condition(opt, r) ==
    IF HasWords(opt, <<" ">> \o W_KAKAO)
    THEN r.game = Text(RemoveWords(opt, <<" ">> \o W_KAKAO)) /\ r.platform = PLAT_KAKAO
    ELSE LET parts == rsplit(opt)
         IN IF Len(parts) > 1 /\ parts[2] # <<>>
            THEN r.game = Text(parts[1]) /\ r.platform = Text(parts[2])
            ELSE r.game = Text(parts[1])

Outcome(status, view) == [called |-> TRUE, raised |-> FALSE, status |-> status, view |-> view]
\* lines 781-784: an empty view ends the run with a warning
ViewOutcome(view) == IF view = <<>> THEN Outcome("no_match", <<>>) ELSE Outcome("render", view)

\* a plausible slip: no selected leaf means no filter
main_filter_EmptyMeansAll(voc_df, range, s) ==
    IF voc_df = <<>> \/ ~Truthy(range) THEN Outcome("no_data", <<>>)
    ELSE LET selected == SelectSeq(all_child, LAMBDA opt : StateGet(s, opt))
             filtered == SelectSeq(voc_df, LAMBDA r :
                             selected = <<>> \/ \E i \in 1..Len(selected) : Condition(selected[i], r))
         IN IF range.kind # "tuple" \/ Len(range.bounds) # 2
            THEN Outcome("bad_range", <<>>)
            ELSE ViewOutcome(SelectSeq(filtered, LAMBDA r :
                                 /\ DateLeq(range.bounds[1], date_of(r.date_dt))
                                 /\ DateLeq(date_of(r.date_dt), range.bounds[2])))

\* a plausible slip: the end of the range is not applied
main_filter_NoEnd(voc_df, range, s) ==
    IF voc_df = <<>> \/ ~Truthy(range) THEN Outcome("no_data", <<>>)
    ELSE LET selected == SelectSeq(all_child, LAMBDA opt : StateGet(s, opt))
         IN IF selected = <<>> THEN ViewOutcome(<<>>)
            ELSE LET filtered == SelectSeq(voc_df, LAMBDA r :
                                    \E i \in 1..Len(selected) : Condition(selected[i], r))
                 IN IF range.kind # "tuple" \/ Len(range.bounds) # 2
                    THEN Outcome("bad_range", <<>>)
                    ELSE ViewOutcome(SelectSeq(filtered, LAMBDA r :
                                         DateLeq(range.bounds[1], date_of(r.date_dt))))

\* how the run ends and, when it goes on to render, the view it renders
main_filter(voc_df, range, s) ==
    IF voc_df = <<>> \/ ~Truthy(range) THEN Outcome("no_data", <<>>)
    ELSE LET selected == SelectSeq(all_child, LAMBDA opt : StateGet(s, opt))
         IN IF selected = <<>> THEN ViewOutcome(<<>>)
            ELSE LET filtered == SelectSeq(voc_df, LAMBDA r :
                                    \E i \in 1..Len(selected) : Condition(selected[i], r))
                 IN IF range.kind # "tuple" \/ Len(range.bounds) # 2
                    THEN Outcome("bad_range", <<>>)
                    ELSE ViewOutcome(SelectSeq(filtered, LAMBDA r :
                                         /\ DateLeq(range.bounds[1], date_of(r.date_dt))
                                         /\ DateLeq(date_of(r.date_dt), range.bounds[2])))

\* a loaded record, as far as the filter reads it
ViewRow(game, platform, day) ==
    [no |-> <<game, platform, day>>, game |-> game, platform |-> platform,
     date_dt |-> StampOf(day)]

AllRows == {ViewRow(g, p, day) : g \in Games, p \in Platforms, day \in TrendDays}

RECURSIVE SeqOf(_)
\* the rows of a set, in some order
SeqOf(S) ==
    IF S = {} THEN <<>>
    ELSE LET r == CHOOSE x \in S : TRUE IN <<r>> \o SeqOf(S \ {r})

\* the tables the harness filters: one with a record of every game, platform
\* and day, one with a single record, and the empty one
FilterTables ==
    {SeqOf(AllRows), <<ViewRow(GAME_POKER, PLAT_PC, NextDay(Day0))>>, <<>>}

\* the values the date widget can hold for a table
DateRanges(voc_df) ==
    IF voc_df = <<>> THEN {NoRange}
    ELSE {OneDate(d) : d \in TrendDays}
           \cup {TupleOf(<<>>)}
           \cup {TupleOf(<<d>>) : d \in TrendDays}
           \cup {TupleOf(<<a, b>>) : a \in TrendDays, b \in TrendDays}

\* the state of the checkbox tree with exactly the leaves of a set checked
StateOf(picked) ==
    LET leaves == [k \in Range(all_child) |-> k \in picked]
        GroupOn(g) == \A opt \in Range(Tail(game_filters(g))) : leaves[opt]
        grouped == {g \in Range(FilterGames) : Len(game_filters(g)) > 1}
    IN [k \in {SELECT_ALL} \cup Range(all_options) |->
           IF k \in Range(all_child) THEN leaves[k]
           ELSE IF k = SELECT_ALL THEN (\A g \in grouped : GroupOn(g)) /\ leaves[<<GITA>>]
           ELSE \A g \in grouped : k = GroupKey(g) => GroupOn(g)]

\* the selections the harness filters with: few leaves, or all but few
Selections ==
    {S \in SUBSET Range(all_child) :
        \/ Cardinality(S) <= MaxPicked
        \/ Cardinality(S) >= Len(all_child) - 1}

NotRun == [called |-> FALSE, raised |-> FALSE, status |-> "none", view |-> <<>>]

InitFilter ==
    /\ fn = "main"
    /\ arg \in {a \in [voc_df : FilterTables,
                       date_range : UNION {DateRanges(v) : v \in FilterTables}] :
                   a.date_range \in DateRanges(a.voc_df)}
    /\ session_state \in {StateOf(S) : S \in Selections}
    /\ ret = NotRun
    /\ sheets = <<>> /\ loaded = NotLoaded
    /\ users = <<>> /\ usersCache = NoUsersEntry /\ vocCache = NoVocEntry
    /\ writes = 0 /\ session = NoRun
    /\ trendIn = NoRet /\ trendOut = NoTrend

Run_main_filter ==
    /\ fn = "main" /\ ~ret.called
    /\ ret' = main_filter(arg.voc_df, arg.date_range, session_state)
    /\ UNCHANGED <<fn, arg, loaderVars, appVars, trendVars, uiVars>>

FilterNext == Run_main_filter

SpecFilter == InitFilter /\ [][FilterNext]_vars

(***************************************************************************)
(* Claims on the filter                                                    *)
(***************************************************************************)
SelectedLeaves == {opt \in Range(all_child) : session_state[opt]}
\* the run ended with a warning and rendered nothing
EndedWithWarning ==
    /\ ~ret.raised
    /\ ret.status \in {"no_data", "bad_range", "no_match"}
    /\ ret.view = <<>>

\* C13: with no leaf selected the view is empty, whatever the table and the
\* date range are, and the run ends with a warning: it does not render and
\* it does not raise.
C13_NoLeafMatchesNothing ==
    (ret.called /\ SelectedLeaves = {}) => EndedWithWarning

\* no leaf is selected, the table has records and the range holds them all
C13_Witness ==
    /\ ret.called /\ SelectedLeaves = {}
    /\ Len(arg.voc_df) > 1
    /\ arg.date_range = TupleOf(<<Day0, NextDay(NextDay(Day0))>>)
    /\ ret.status = "no_match"

\* the range is no tuple of exactly two bounds, or its start is after its end
Malformed(range) ==
    \/ range.kind # "tuple"
    \/ Len(range.bounds) # 2
    \/ ~DateLeq(range.bounds[1], range.bounds[2])

\* C14: with a malformed date range the result is empty and the run ends
\* with a warning, whatever leaves are selected; it never raises.
C14_MalformedRangeWarns ==
    (ret.called /\ Malformed(arg.date_range)) => EndedWithWarning

\* every leaf selected, a full table, and a range whose start is after its end
C14_Witness ==
    /\ ret.called
    /\ SelectedLeaves = Range(all_child)
    /\ Len(arg.voc_df) > 1
    /\ arg.date_range = TupleOf(<<NextDay(Day0), Day0>>)
    /\ ret.status = "no_match"

\* the words of a platform in a leaf's text
WordsOf(platform) == IF platform = PLAT_KAKAO THEN W_KAKAO ELSE <<platform>>

\* some selected leaf is the record's game with the record's platform, or
\* the record's game is the single-platform 'Other' and that leaf is selected
LeafMatches(r) ==
    \/ /\ r.platform \in {PLAT_MOB, PLAT_PC, PLAT_KAKAO}
       /\ Leaf(r.game, WordsOf(r.platform)) \in SelectedLeaves
    \/ r.game = GITA /\ <<GITA>> \in SelectedLeaves

\* C15: for a range of two bounds, a record of the table is in the view
\* exactly when its date lies in [start, end] and a selected leaf matches it.
C15_ViewIsRangeAndLeaf ==
    (ret.called /\ arg.date_range.kind = "tuple" /\ Len(arg.date_range.bounds) = 2) =>
        /\ \A i \in 1..Len(arg.voc_df) :
              LET r == arg.voc_df[i]
              IN (r.no \in {ret.view[k].no : k \in 1..Len(ret.view)})
                    <=> /\ DateLeq(arg.date_range.bounds[1], date_of(r.date_dt))
                        /\ DateLeq(date_of(r.date_dt), arg.date_range.bounds[2])
                        /\ LeafMatches(r)
        /\ \A k \in 1..Len(ret.view) : \E i \in 1..Len(arg.voc_df) : ret.view[k] = arg.voc_df[i]

\* two leaves selected, one of them 'Other': the view holds the records of
\* one day of the one game and platform and of Other on every platform
C15_Witness ==
    /\ ret.called /\ ret.status = "render"
    /\ SelectedLeaves = {Leaf(GAME_NEWMATGO, W_KAKAO), <<GITA>>}
    /\ arg.date_range = TupleOf(<<NextDay(Day0), NextDay(Day0)>>)
    /\ Len(ret.view) = 5

\* the record's date lies in the two-bound range
InRange(r) ==
    /\ DateLeq(arg.date_range.bounds[1], date_of(r.date_dt))
    /\ DateLeq(date_of(r.date_dt), arg.date_range.bounds[2])

\* every leaf is selected and the range has two bounds
AllLeavesRun ==
    /\ ret.called
    /\ SelectedLeaves = Range(all_child)
    /\ arg.date_range.kind = "tuple" /\ Len(arg.date_range.bounds) = 2

\* category texts with a game's name and no word of a platform, and the
\* name of a game followed by 'for kakao'
BareCategories == {KwShowdown, KwNewVegas, KwNewMatgo, KwSutda, KwPoker}
KakaoCategories == {KwShowdown \o KwForKakao, KwNewVegas \o KwForKakao}

\* the classifiers give the pair to some such category
Producible(game, platform) ==
    \E c \in BareCategories \cup KakaoCategories :
        classify_game(PyStr(c)) = game /\ classify_platform(PyStr(c)) = platform

\* a pair no leaf stands for: a named game on platform Other, and the two
\* games without a 'for kakao' leaf on that platform
Unlisted(game, platform) ==
    /\ game # GITA
    /\ \/ platform = GITA
       \/ platform = PLAT_KAKAO /\ game \in {GAME_SHOWDOWN, GAME_NEWVEGAS}

\* C22 as claimed: with every leaf selected and a range of two bounds, every
\* record of the table dated in [start, end] is in the view.
C22_Original ==
    AllLeavesRun =>
        \A i \in 1..Len(arg.voc_df) :
            InRange(arg.voc_df[i]) => \E k \in 1..Len(ret.view) : ret.view[k] = arg.voc_df[i]

\* C22, what the code does: with every leaf selected and a range of two
\* bounds, a record dated in [start, end] is in the view exactly when some
\* leaf stands for its pair; the records of the seven unlisted pairs are left
\* out, and the classifiers produce each of those pairs.
C22_SelectAllDropsUnlisted ==
    AllLeavesRun =>
        \A i \in 1..Len(arg.voc_df) :
            LET r == arg.voc_df[i]
            IN /\ (\E k \in 1..Len(ret.view) : ret.view[k] = r)
                     <=> (InRange(r) /\ ~Unlisted(r.game, r.platform))
               /\ Unlisted(r.game, r.platform) => Producible(r.game, r.platform)

\* every leaf selected, the table of every pair and a range over three days:
\* the view is rendered without the records of the seven unlisted pairs
C22_Witness ==
    /\ AllLeavesRun /\ ret.status = "render"
    /\ arg.voc_df = SeqOf(AllRows)
    /\ arg.date_range = TupleOf(<<Day0, NextDay(NextDay(Day0))>>)
    /\ Cardinality({<<g, p>> \in Games \X Platforms : Unlisted(g, p)}) = 7
    /\ Len(ret.view) = 3 * (Cardinality(Games \X Platforms) - 7)

(***************************************************************************)
(* main: the keyword search of the second tab, lines 976-992               *)
(***************************************************************************)
MaxKeyLen == 3

RECURSIVE split(_, _)
\* s.split(sep), sep one character
split(s, sep) ==
    IF \E i \in 1..Len(s) : s[i] = sep
    THEN LET i == CHOOSE j \in 1..Len(s) : s[j] = sep /\ \A k \in 1..(j - 1) : s[k] # sep
         IN <<SubSeq(s, 1, i - 1)>> \o split(SubSeq(s, i + 1, Len(s)), sep)
    ELSE <<s>>

\* an atom of a pattern: a literal character, or the dot that matches any
Lit(c) == [any |-> FALSE, c |-> c]
AnyChar == [any |-> TRUE, c |-> "."]

\* the token as a pattern with nothing escaped: its dots match any character
unescaped(k) == [i \in 1..Len(k) |-> IF k[i] = "." THEN AnyChar ELSE Lit(k[i])]

\* re.escape(k): every character of the token stands for itself
escape(k) == [i \in 1..Len(k) |-> Lit(k[i])]

\* the pattern matches at some place of the text, letter case ignored
Matches(pattern, text) ==
    \E i \in 0..(Len(text) - Len(pattern)) :
        \A j \in 1..Len(pattern) :
            pattern[j].any \/ LowerChar(pattern[j].c) = LowerChar(text[i + j])

\* Series.str.contains("|".join(keywords), case=False, regex=True)
contains(text, keywords) == \E i \in 1..Len(keywords) : Matches(keywords[i], text)

\* [k.strip() for k in last_keyword.split(",") if k.strip()]
Tokens(last_keyword) ==
    LET parts == split(last_keyword, ",")
        stripped == [i \in 1..Len(parts) |-> Strip(parts[i])]
    IN SelectSeq(stripped, LAMBDA k : k # <<>>)

\* what the search leaves: whether r was assigned, and r
SearchOutcome(bound, r) == [called |-> TRUE, bound |-> bound, r |-> r]

\* a plausible slip: the tokens go into the pattern as they are
search_NoEscape(view_df, last_keyword) ==
    IF last_keyword = <<>> THEN SearchOutcome(FALSE, <<>>)
    ELSE LET tokens == Tokens(last_keyword)
             keywords == [i \in 1..Len(tokens) |-> unescaped(tokens[i])]
         IN IF keywords = <<>> THEN SearchOutcome(FALSE, <<>>)
            ELSE SearchOutcome(TRUE, SelectSeq(view_df, LAMBDA r :
                     contains(r.title, keywords) \/ contains(r.search_body, keywords)))

\* lines 977-987
search(view_df, last_keyword) ==
    IF last_keyword = <<>> THEN SearchOutcome(FALSE, <<>>)
    ELSE LET tokens == Tokens(last_keyword)
             keywords == [i \in 1..Len(tokens) |-> escape(tokens[i])]
         IN IF keywords = <<>> THEN SearchOutcome(FALSE, <<>>)
            ELSE SearchOutcome(TRUE, SelectSeq(view_df, LAMBDA r :
                     contains(r.title, keywords) \/ contains(r.search_body, keywords)))

\* a record of the view as the search reads it: the title, and the body
\* after truncate_inquiry_content
SearchRow(no, title, body) ==
    [no |-> no, title |-> title, body |-> body,
     search_body |-> truncate_inquiry_content(PyStr(body))]

SearchView ==
    << SearchRow(1, <<"A", "z">>, <<"z", "z">>),
       SearchRow(2, <<"z">>, <<"x", "a", "b", "y">>),
       SearchRow(3, <<"z", " ", "z">>, <<"a", ".", "A">>),
       SearchRow(4, <<>>, <<>>),
       SearchRow(5, <<"z">>, <<"z", " ">> \o MEMBER_NO_MARK \o <<"a", "b">>) >>

SearchViews == {SearchView, SubSeq(SearchView, 2, 3), SubSeq(SearchView, 5, 5)}

KeyChars == {"a", "B", ".", ",", " "}
RECURSIVE KeyTexts(_)
KeyTexts(n) ==
    IF n = 0 THEN {<<>>}
    ELSE LET shorter == KeyTexts(n - 1)
         IN shorter \cup {Append(s, c) : s \in shorter, c \in KeyChars}

NotSearched == [called |-> FALSE, bound |-> FALSE, r |-> <<>>]

InitSearch ==
    /\ fn = "search"
    /\ arg \in [view_df : SearchViews, last_keyword : KeyTexts(MaxKeyLen)]
    /\ ret = NotSearched
    /\ session_state = NoState
    /\ sheets = <<>> /\ loaded = NotLoaded
    /\ users = <<>> /\ usersCache = NoUsersEntry /\ vocCache = NoVocEntry
    /\ writes = 0 /\ session = NoRun
    /\ trendIn = NoRet /\ trendOut = NoTrend

Run_search ==
    /\ fn = "search" /\ ~ret.called
    /\ ret' = search(arg.view_df, arg.last_keyword)
    /\ UNCHANGED <<fn, arg, loaderVars, appVars, trendVars, uiVars>>

SearchNext == Run_search

SpecSearch == InitSearch /\ [][SearchNext]_vars

(***************************************************************************)
(* Claims on the keyword search                                            *)
(***************************************************************************)
\* the tokens of the keyword text, by their definition: the pieces between
\* commas, without the blanks around them, the empty ones left out
TokenSet ==
    LET s == arg.last_keyword
        IsPiece(lo, hi) ==
            /\ lo = 1 \/ s[lo - 1] = ","
            /\ hi = Len(s) \/ s[hi + 1] = ","
            /\ \A i \in lo..hi : s[i] # ","
    IN {Strip(SubSeq(s, q[1], q[2])) :
           q \in {p \in (1..Len(s)) \X (1..Len(s)) : p[1] <= p[2] /\ IsPiece(p[1], p[2])}}
         \ {<<>>}

\* the token is a part of the text, letter case ignored
HasToken(text, k) == Contains(Lower(text), Lower(k))

\* C16 as claimed: a keyword text without tokens gives the whole view as the
\* search result.
C16_Original ==
    (ret.called /\ TokenSet = {}) => (ret.bound /\ ret.r = arg.view_df)

\* C16, what the code does: a keyword text without tokens runs no search;
\* no result is assigned, the empty result included.
C16_NoTokensNoSearch ==
    (ret.called /\ TokenSet = {}) => ~ret.bound

\* the keyword text is a blank, a comma and a blank
C16_Witness ==
    /\ ret.called
    /\ arg.last_keyword = <<" ", ",", " ">>
    /\ arg.view_df = SearchView
    /\ ~ret.bound

\* C17: with a token in the keyword text, a record of the view is in the
\* result exactly when its title or its truncated body has one of the tokens
\* as a part, letter case ignored and every character of the token standing
\* for itself; the result keeps the view's order.
C17_LiteralAnyToken ==
    (ret.called /\ TokenSet # {}) =>
        /\ ret.bound
        /\ ret.r = SelectSeq(arg.view_df, LAMBDA r :
                      \E k \in TokenSet : HasToken(r.title, k) \/ HasToken(r.search_body, k))

\* the token 'a.' finds the record with 'a.A' and not the one with 'xaby'
C17_Witness ==
    /\ ret.called
    /\ arg.last_keyword = <<"a", ".", ",">>
    /\ arg.view_df = SearchView
    /\ [i \in 1..Len(ret.r) |-> ret.r[i].no] = <<3>>

(***************************************************************************)
(* extract_gsn_usn                                                         *)
(***************************************************************************)
\* the label of the member number, without the blank and the colon
MEMBER_NO_LABEL == SubSeq(MEMBER_NO_MARK, 1, 4)

\* where a greedy \s* that starts at place i stops
SkipSpace(s, i) ==
    CHOOSE j \in i..(Len(s) + 1) :
        /\ \A k \in i..(j - 1) : s[k] \in Whitespace
        /\ j = Len(s) + 1 \/ s[j] \notin Whitespace

\* the greedy \d+ at place i: the digits from i on, <<>> when there is none
DigitsAt(s, i) ==
    LET j == CHOOSE e \in i..(Len(s) + 1) :
                 /\ \A k \in i..(e - 1) : IsDigit(s[k])
                 /\ e = Len(s) + 1 \/ ~IsDigit(s[e])
    IN SubSeq(s, i, j - 1)

\* the group of label \s* : \s* (\d+) tried at place i, <<>> for no match
MemberNoAt(s, i) ==
    IF i + Len(MEMBER_NO_LABEL) - 1 <= Len(s)
         /\ SubSeq(s, i, i + Len(MEMBER_NO_LABEL) - 1) = MEMBER_NO_LABEL
    THEN LET c == SkipSpace(s, i + Len(MEMBER_NO_LABEL))
         IN IF c <= Len(s) /\ s[c] = ":" THEN DigitsAt(s, SkipSpace(s, c + 1)) ELSE <<>>
    ELSE <<>>

\* re.search: the match at the leftmost place that has one
search_member_no(s) ==
    IF \E i \in 1..Len(s) : MemberNoAt(s, i) # <<>>
    THEN MemberNoAt(s, CHOOSE i \in 1..Len(s) :
                          MemberNoAt(s, i) # <<>> /\ \A k \in 1..(i - 1) : MemberNoAt(s, k) = <<>>)
    ELSE <<>>

\* re.search(r'\d+', info): the leftmost run of digits
search_digits(s) ==
    IF \E i \in 1..Len(s) : IsDigit(s[i])
    THEN DigitsAt(s, CHOOSE i \in 1..Len(s) : IsDigit(s[i]) /\ \A k \in 1..(i - 1) : ~IsDigit(s[k]))
    ELSE <<>>

\* a plausible slip: a fallback chain, the customer info tried on every platform
extract_gsn_usn_Fallback(row) ==
    IF row.platform \in {PLAT_MOB, PLAT_KAKAO} /\ search_member_no(row.body) # <<>>
    THEN search_member_no(row.body)
    ELSE search_digits(row.info)

extract_gsn_usn(row) ==
    IF row.platform \in {PLAT_MOB, PLAT_KAKAO} /\ search_member_no(row.body) # <<>>
    THEN search_member_no(row.body)
    ELSE IF row.platform = PLAT_PC /\ search_digits(row.info) # <<>>
    THEN search_digits(row.info)
    ELSE <<>>

\* pieces of the bodies the harness builds
GsnChunks ==
    {MEMBER_NO_LABEL, <<":">>, <<" ", ":", " ">>, <<"4", "2">>, <<"x">>}
GsnInfos == {<<>>, <<"n", "a", "n">>, <<"9", "9">>, <<"i", "d", "3", "1", "-", "5">>}

InitGsn ==
    /\ fn = "extract_gsn_usn"
    /\ arg \in [platform : Platforms, body : TextsOf(GsnChunks, MaxChunks), info : GsnInfos]
    /\ ret = [called |-> FALSE, value |-> <<>>]
    /\ session_state = NoState
    /\ sheets = <<>> /\ loaded = NotLoaded
    /\ users = <<>> /\ usersCache = NoUsersEntry /\ vocCache = NoVocEntry
    /\ writes = 0 /\ session = NoRun
    /\ trendIn = NoRet /\ trendOut = NoTrend

Call_extract_gsn_usn ==
    /\ fn = "extract_gsn_usn" /\ ~ret.called
    /\ ret' = [called |-> TRUE, value |-> extract_gsn_usn(arg)]
    /\ UNCHANGED <<fn, arg, loaderVars, appVars, trendVars, uiVars>>

GsnNext == Call_extract_gsn_usn

SpecGsn == InitGsn /\ [][GsnNext]_vars

(***************************************************************************)
(* Claims on extract_gsn_usn                                               *)
(***************************************************************************)
\* the digits d stand in s after the label, blanks, a colon and blanks, and
\* no digit follows them; lo is the place of the label
LabelledAt(s, lo, d) ==
    \E c \in 1..Len(s), b \in 1..Len(s), e \in 1..Len(s) :
        /\ lo + 4 <= c /\ c < b /\ b <= e
        /\ SubSeq(s, lo, lo + 3) = MEMBER_NO_LABEL
        /\ \A k \in (lo + 4)..(c - 1) : s[k] \in Whitespace
        /\ s[c] = ":"
        /\ \A k \in (c + 1)..(b - 1) : s[k] \in Whitespace
        /\ \A k \in b..e : IsDigit(s[k])
        /\ e = Len(s) \/ ~IsDigit(s[e + 1])
        /\ d = SubSeq(s, b, e)

\* some digits stand after the label at place lo
Labelled(s, lo) ==
    \E c \in 1..Len(s), b \in 1..Len(s) :
        /\ lo + 4 <= c /\ c < b
        /\ SubSeq(s, lo, lo + 3) = MEMBER_NO_LABEL
        /\ \A k \in (lo + 4)..(c - 1) : s[k] \in Whitespace
        /\ s[c] = ":"
        /\ \A k \in (c + 1)..(b - 1) : s[k] \in Whitespace
        /\ IsDigit(s[b])

\* d is the first run of digits of s
FirstRun(s, d) ==
    \E b \in 1..Len(s), e \in 1..Len(s) :
        /\ b <= e /\ d = SubSeq(s, b, e)
        /\ \A k \in 1..(b - 1) : ~IsDigit(s[k])
        /\ \A k \in b..e : IsDigit(s[k])
        /\ e = Len(s) \/ ~IsDigit(s[e + 1])

\* C18: on MOB and 'for kakao' the value is the digits after the first
\* member-number label of the body that has digits, and the empty text when
\* there is none, whatever the customer info holds; on PC it is the first
\* run of digits of the customer info, and the empty text when there is
\* none, whatever the body holds; on any other platform it is the empty text.
C18_OnePathPerPlatform ==
    ret.called =>
        LET v == ret.value
        IN /\ arg.platform \in {PLAT_MOB, PLAT_KAKAO} =>
                 IF \E lo \in 1..Len(arg.body) : Labelled(arg.body, lo)
                 THEN \E lo \in 1..Len(arg.body) :
                         /\ LabelledAt(arg.body, lo, v)
                         /\ \A k \in 1..(lo - 1) : ~Labelled(arg.body, k)
                 ELSE v = <<>>
           /\ arg.platform = PLAT_PC =>
                 IF \E i \in 1..Len(arg.info) : IsDigit(arg.info[i])
                 THEN FirstRun(arg.info, v)
                 ELSE v = <<>>
           /\ arg.platform \notin {PLAT_MOB, PLAT_KAKAO, PLAT_PC} => v = <<>>

\* a mobile record whose body has no member number and whose customer info
\* has digits gets the empty text
C18_Witness ==
    /\ ret.called
    /\ arg.platform = PLAT_MOB
    /\ arg.body = MEMBER_NO_LABEL \o <<"x">> \o <<"4", "2">>
    /\ arg.info = <<"9", "9">>
    /\ ret.value = <<>>

(***************************************************************************)
(* main: the four places that show a body summary                          *)
(***************************************************************************)
HEAD_ROWS == 200

\* DataFrame.head(200)
head(frame) == SubSeq(frame, 1, IF Len(frame) < HEAD_ROWS THEN Len(frame) ELSE HEAD_ROWS)

\* what a place shows in its body-summary column, row by row
Shown(raised, texts) == [called |-> TRUE, raised |-> raised, shown |-> texts]

\* lines 802 and 841-865: the sample of each game that has records
show_sample(voc_df, current_date) ==
    LET game_summaries == get_yesterday_summary_by_game(voc_df, current_date)
        listed == SelectSeq(FixedGames, LAMBDA g :
                      g \in DOMAIN game_summaries.results
                          /\ game_summaries.results[g].count # 0)
    IN IF game_summaries.raised THEN Shown(TRUE, <<>>)
       ELSE Shown(FALSE, [i \in 1..Len(listed) |->
                             game_summaries.results[listed[i]].sample.content])

\* lines 928-944: the table of the category tab
show_category_table(view_df, selected_cats, selected_sentiments) ==
    IF selected_cats # {} /\ selected_sentiments # {}
    THEN LET disp == SelectSeq(view_df, LAMBDA r :
                         r.l2 \in selected_cats /\ r.sentiment \in selected_sentiments)
             show_df == head(disp)
         IN Shown(FALSE, [i \in 1..Len(show_df) |-> mask_phone_number(show_df[i].summary)])
    ELSE Shown(FALSE, <<>>)

\* lines 977-1023: the table of the search tab
show_search_table(view_df, last_keyword) ==
    LET found == search(view_df, last_keyword)
    IN IF found.bound /\ found.r # <<>>
       THEN LET disp_r == head(found.r)
            IN Shown(FALSE, [i \in 1..Len(disp_r) |-> mask_phone_number(disp_r[i].summary)])
       ELSE Shown(FALSE, <<>>)

\* lines 1042-1073: the table of the payment / authentication tab
show_payment_table(view_df) ==
    LET payment_auth_df == SelectSeq(view_df, LAMBDA r : r.l1 \in {L1_ACCOUNT, L1_PAYMENT})
        disp_payment == head(payment_auth_df)
    IN Shown(FALSE, [i \in 1..Len(disp_payment) |-> disp_payment[i].summary])

\* a loaded record as the four places read it; the summary and the search
\* column are the ones of lines 359-360
DisplayRow(body, l1, l2, sentiment) ==
    [date_dt |-> StampOf(NextDay(Day0)), game |-> GAME_POKER, sentiment |-> sentiment,
     title |-> <<"T">>, l1 |-> l1, l2 |-> l2, body |-> body,
     summary |-> truncate_inquiry_content(PyStr(body)),
     search_body |-> truncate_inquiry_content(PyStr(body))]

PHONE_DASHED == <<"0", "1", "0", "-", "1", "2", "3", "4", "-", "5", "6", "7", "8">>
PHONE_PLAIN  == <<"0", "1", "0", "1", "2", "3", "4", "5", "6", "7", "8">>
PHONE_DOTTED == <<"0", "1", "0", ".", "1", "2", "3", ".", "4", "5", "6", "7">>
NOT_A_PHONE  == <<"0", "1", "0", "-", "1", "2", "-", "3", "4", "5", "6">>

DisplayRows ==
    { DisplayRow(<<"c", "a", "l", "l", " ">> \o PHONE_DASHED, L1_PAYMENT, "refund", SENT_NEG),
      DisplayRow(PHONE_PLAIN, L1_ACCOUNT, "login", SENT_NEU),
      DisplayRow(<<"h", "e", "l", "p">>, L1_PLAY, "rule", SENT_NEU),
      DisplayRow(PHONE_DOTTED \o <<" ", "a", "b">>, L1_PLAY, "rule", SENT_NEG),
      DisplayRow(<<"x", " ">> \o MEMBER_NO_MARK \o PHONE_DASHED, L1_ACCOUNT, "login", SENT_NEG),
      DisplayRow(NOT_A_PHONE, L1_PAYMENT, "refund", SENT_NEU) }

DisplayPlaces == {"sample", "category", "search", "payment"}
DisplayKeywords == {<<>>, <<"0">>, <<"h", "e", "l", "p", ",">>}
DisplaySentiments == {Sentiments, {SENT_NEG}, {}}

NotShown == [called |-> FALSE, raised |-> FALSE, shown |-> <<>>]

InitDisplay ==
    /\ fn \in DisplayPlaces
    /\ arg \in {a \in [view_df : RowLists(DisplayRows, MaxVocRows),
                       current_date : {NextDay(NextDay(Day0))},
                       last_keyword : DisplayKeywords,
                       selected_cats : SUBSET {"refund", "login"},
                       selected_sentiments : DisplaySentiments] :
                   a.selected_cats \subseteq {a.view_df[i].l2 : i \in 1..Len(a.view_df)}}
    /\ ret = NotShown
    /\ session_state = NoState
    /\ sheets = <<>> /\ loaded = NotLoaded
    /\ users = <<>> /\ usersCache = NoUsersEntry /\ vocCache = NoVocEntry
    /\ writes = 0 /\ session = NoRun
    /\ trendIn = NoRet /\ trendOut = NoTrend

Show_sample ==
    /\ fn = "sample" /\ ~ret.called
    /\ ret' = show_sample(arg.view_df, arg.current_date)
    /\ UNCHANGED <<fn, arg, loaderVars, appVars, trendVars, uiVars>>

Show_category_table ==
    /\ fn = "category" /\ ~ret.called
    /\ ret' = show_category_table(arg.view_df, arg.selected_cats, arg.selected_sentiments)
    /\ UNCHANGED <<fn, arg, loaderVars, appVars, trendVars, uiVars>>

Show_search_table ==
    /\ fn = "search" /\ ~ret.called
    /\ ret' = show_search_table(arg.view_df, arg.last_keyword)
    /\ UNCHANGED <<fn, arg, loaderVars, appVars, trendVars, uiVars>>

Show_payment_table ==
    /\ fn = "payment" /\ ~ret.called
    /\ ret' = show_payment_table(arg.view_df)
    /\ UNCHANGED <<fn, arg, loaderVars, appVars, trendVars, uiVars>>

DisplayNext ==
    \/ Show_sample
    \/ Show_category_table
    \/ Show_search_table
    \/ Show_payment_table

SpecDisplay == InitDisplay /\ [][DisplayNext]_vars

(***************************************************************************)
(* Claims on the body summaries on display                                 *)
(***************************************************************************)
\* the text holds a phone number: 010, then three or four digits, then four
\* digits, each part joined to the next directly or by one separator
HasPhone(text) ==
    \E i \in 1..Len(text), a \in 0..1, n \in 3..4, b \in 0..1 :
        LET mid == i + 3 + a
            last == mid + n + b
        IN /\ last + 3 <= Len(text)
           /\ SubSeq(text, i, i + 2) = <<"0", "1", "0">>
           /\ a = 1 => text[i + 3] \in {"-", ".", " ", "\n", "\t"}
           /\ \A k \in mid..(mid + n - 1) : text[k] \in DigitChars
           /\ b = 1 => text[mid + n] \in {"-", ".", " ", "\n", "\t"}
           /\ \A k \in last..(last + 3) : text[k] \in DigitChars

\* C25 as claimed: no place shows a body summary that holds a phone number.
C25_Original ==
    ret.called => \A k \in 1..Len(ret.shown) : ~HasPhone(ret.shown[k])

\* C25, what the code does: the sample, the category table and the search
\* table show no body summary that holds a phone number; the payment /
\* authentication table shows the summaries of its records as they are
\* stored, phone numbers included.
C25_PaymentTableUnmasked ==
    ret.called =>
        /\ fn # "payment" => \A k \in 1..Len(ret.shown) : ~HasPhone(ret.shown[k])
        /\ fn = "payment" =>
              LET rows == SelectSeq(arg.view_df, LAMBDA r : r.l1 \in {L1_ACCOUNT, L1_PAYMENT})
              IN ret.shown = [i \in 1..Len(rows) |-> rows[i].summary]

\* the payment table shows a record whose summary holds a phone number
C25_Witness ==
    /\ ret.called /\ fn = "payment"
    /\ Len(ret.shown) = 1
    /\ ret.shown[1] = <<"c", "a", "l", "l", " ">> \o PHONE_DASHED
    /\ HasPhone(ret.shown[1])

====
